---- MODULE Spec2Model ----
(***************************************************************************)
(* The front end of the ares scripting language (Magnus9/rustares): the    *)
(* scanner (src/scanner/scanner.rs), the token and node types              *)
(* (src/token/mod.rs, src/intermediate/mod.rs) and the recursive-descent   *)
(* parser (src/parser/mod.rs).                                             *)
(*                                                                         *)
(* A character is a one-character string; the source text, a token's text  *)
(* and a string value are sequences of characters.  A panic (Scanner::error,*)
(* Parser::error, an out-of-range index) is recorded in the `err` field of *)
(* the scanner or parser record, and every later step of the interrupted   *)
(* call is skipped, as unwinding does.                                     *)
(***************************************************************************)
EXTENDS Integers, Sequences, FiniteSets, TLC

VARIABLES
    sc,       \* the Scanner object
    prev,     \* the Scanner as it was before the last direct next_token call
    parser,   \* the Parser object (current, next, in_subroutine), once built
    tok,      \* the token the last Scanner::next_token call returned
    out,      \* the direct next_token calls that returned: the token, the
              \* offset it starts at, the scanner's place after the call
    tree,     \* the tree Parser::program returned
    pc        \* "scan" | "scan_panic" | "parser" | "parsed" | "panic"

vars == <<sc, prev, parser, tok, out, tree, pc>>

(***************************************************************************)
(* Characters                                                              *)
(***************************************************************************)
EOF_CHAR == "NUL"
LF == "\n"
CR == "\r"
TAB == "\t"

\* Codes 32..95 and 97..126 (the grave accent, 96, is left out).
PrintableLow == <<
    " ", "!", "\"", "#", "$", "%", "&", "'", "(", ")", "*", "+",
    ",", "-", ".", "/", "0", "1", "2", "3", "4", "5", "6", "7",
    "8", "9", ":", ";", "<", "=", ">", "?", "@", "A", "B", "C",
    "D", "E", "F", "G", "H", "I", "J", "K", "L", "M", "N", "O",
    "P", "Q", "R", "S", "T", "U", "V", "W", "X", "Y", "Z", "[",
    "\\", "]", "^", "_" >>

PrintableHigh == <<
    "a", "b", "c", "d", "e", "f", "g",
    "h", "i", "j", "k", "l", "m", "n", "o", "p", "q", "r", "s",
    "t", "u", "v", "w", "x", "y", "z", "{", "|", "}", "~" >>

Chars ==
    {PrintableLow[i] : i \in DOMAIN PrintableLow}
        \cup {PrintableHigh[i] : i \in DOMAIN PrintableHigh}
        \cup {EOF_CHAR, LF, CR, TAB}

\* `ch as i32`: the character's code.
OrdTable ==
    [c \in Chars |->
        IF c = EOF_CHAR THEN 0
        ELSE IF c = TAB THEN 9
        ELSE IF c = LF THEN 10
        ELSE IF c = CR THEN 13
        ELSE IF \E i \in DOMAIN PrintableLow : PrintableLow[i] = c
             THEN 31 + (CHOOSE i \in DOMAIN PrintableLow : PrintableLow[i] = c)
             ELSE 96 + (CHOOSE i \in DOMAIN PrintableHigh : PrintableHigh[i] = c)]

Ord(c) == OrdTable[c]

\* A name for each byte value, used for the bytes that are no member of Chars.
CodeName == <<
    "x00", "x01", "x02", "x03", "x04", "x05", "x06", "x07",
    "x08", "x09", "x0a", "x0b", "x0c", "x0d", "x0e", "x0f",
    "x10", "x11", "x12", "x13", "x14", "x15", "x16", "x17",
    "x18", "x19", "x1a", "x1b", "x1c", "x1d", "x1e", "x1f",
    "x20", "x21", "x22", "x23", "x24", "x25", "x26", "x27",
    "x28", "x29", "x2a", "x2b", "x2c", "x2d", "x2e", "x2f",
    "x30", "x31", "x32", "x33", "x34", "x35", "x36", "x37",
    "x38", "x39", "x3a", "x3b", "x3c", "x3d", "x3e", "x3f",
    "x40", "x41", "x42", "x43", "x44", "x45", "x46", "x47",
    "x48", "x49", "x4a", "x4b", "x4c", "x4d", "x4e", "x4f",
    "x50", "x51", "x52", "x53", "x54", "x55", "x56", "x57",
    "x58", "x59", "x5a", "x5b", "x5c", "x5d", "x5e", "x5f",
    "x60", "x61", "x62", "x63", "x64", "x65", "x66", "x67",
    "x68", "x69", "x6a", "x6b", "x6c", "x6d", "x6e", "x6f",
    "x70", "x71", "x72", "x73", "x74", "x75", "x76", "x77",
    "x78", "x79", "x7a", "x7b", "x7c", "x7d", "x7e", "x7f",
    "x80", "x81", "x82", "x83", "x84", "x85", "x86", "x87",
    "x88", "x89", "x8a", "x8b", "x8c", "x8d", "x8e", "x8f",
    "x90", "x91", "x92", "x93", "x94", "x95", "x96", "x97",
    "x98", "x99", "x9a", "x9b", "x9c", "x9d", "x9e", "x9f",
    "xa0", "xa1", "xa2", "xa3", "xa4", "xa5", "xa6", "xa7",
    "xa8", "xa9", "xaa", "xab", "xac", "xad", "xae", "xaf",
    "xb0", "xb1", "xb2", "xb3", "xb4", "xb5", "xb6", "xb7",
    "xb8", "xb9", "xba", "xbb", "xbc", "xbd", "xbe", "xbf",
    "xc0", "xc1", "xc2", "xc3", "xc4", "xc5", "xc6", "xc7",
    "xc8", "xc9", "xca", "xcb", "xcc", "xcd", "xce", "xcf",
    "xd0", "xd1", "xd2", "xd3", "xd4", "xd5", "xd6", "xd7",
    "xd8", "xd9", "xda", "xdb", "xdc", "xdd", "xde", "xdf",
    "xe0", "xe1", "xe2", "xe3", "xe4", "xe5", "xe6", "xe7",
    "xe8", "xe9", "xea", "xeb", "xec", "xed", "xee", "xef",
    "xf0", "xf1", "xf2", "xf3", "xf4", "xf5", "xf6", "xf7",
    "xf8", "xf9", "xfa", "xfb", "xfc", "xfd", "xfe", "xff" >>

\* `value as u8 as char`
Chr(n) ==
    IF \E c \in Chars : OrdTable[c] = n
    THEN CHOOSE c \in Chars : OrdTable[c] = n
    ELSE CodeName[n + 1]

(***************************************************************************)
(* token/mod.rs                                                            *)
(***************************************************************************)
TokenType == <<
    "STRING", "INTEGER", "FLOAT", "TRUE", "FALSE", "NIL", "IDENT",
    "DEF", "IF", "ELIF", "ELSE", "FOR", "WHILE", "UNTIL", "IN", "IMPORT",
    "DEBUG", "RETURN",
    "LOGICAL_OR", "LOGICAL_AND", "EQL", "NOT_EQL", "LT", "LE", "GT", "GE",
    "BITWISE_OR", "BITWISE_XOR", "BITWISE_AND", "LEFT_SHIFT", "RIGHT_SHIFT",
    "DOT", "DOTDOT", "PLUS", "MINUS", "MUL", "DIV", "MODULO", "BANG", "COMPL",
    "LPAREN", "RPAREN", "LBRACK", "RBRACK", "LBRACE", "RBRACE", "COMMA",
    "SEMICOLON", "ASSIGN_ARROW", "NEWLINE",
    "ASSIGN", "BITWISE_OR_ASSIGN", "BITWISE_XOR_ASSIGN", "BITWISE_AND_ASSIGN",
    "LEFT_SHIFT_ASSIGN", "RIGHT_SHIFT_ASSIGN", "PLUS_ASSIGN", "MINUS_ASSIGN",
    "MUL_ASSIGN", "DIV_ASSIGN", "MODULO_ASSIGN",
    "BLOCK", "SUB_DECL", "SUB_LITERAL", "SUB_PARAMS", "ARRAY_DECL",
    "HASH_DECL", "HASH_ELEM", "CALL", "SUBSCRIPT", "NEGATE",
    "EOF" >>

\* `$type as i32`: the position of the variant in the enum.
TokenTypeOrd ==
    [t \in {TokenType[i] : i \in DOMAIN TokenType} |->
        (CHOOSE i \in DOMAIN TokenType : TokenType[i] = t) - 1]

is_between(type, min, max) ==
    /\ TokenTypeOrd[type] >= TokenTypeOrd[min]
    /\ TokenTypeOrd[type] <= TokenTypeOrd[max]

\* An i64 is kept as <<sign, a2, a1, a0>>: sign * (a2 * 2^48 + a1 * 2^24 + a0)
\* with every limb below 2^24, so that the full 64-bit range is representable.
LimbBase == 2 ^ 24

I64(n) ==
    LET m == IF n < 0 THEN -n ELSE n IN
    <<IF n < 0 THEN -1 ELSE 1, 0, m \div LimbBase, m % LimbBase>>

\* enum Value; the payload fields a variant does not use hold a fixed filler.
IntegerValue(n) == [tag |-> "IntegerValue", i |-> n, s |-> <<>>, b |-> FALSE]
StringValue(str) == [tag |-> "StringValue", i |-> I64(0), s |-> str, b |-> FALSE]
BoolValue(bool) == [tag |-> "BoolValue", i |-> I64(0), s |-> <<>>, b |-> bool]
\* An f64 read from `digits '.' digits`, kept as the numeral in canonical form
\* (see f64_from_str).
FloatValue(numeral) == [tag |-> "FloatValue", i |-> I64(0), s |-> numeral, b |-> FALSE]

Token_new(line_num, line_pos) ==
    [text |-> <<>>, token_type |-> "STRING", value |-> IntegerValue(I64(0)),
     line_num |-> line_num, line_pos |-> line_pos]

Token_new_imag(text, token_type, line_num, line_pos) ==
    [text |-> text, token_type |-> token_type, value |-> IntegerValue(I64(0)),
     line_num |-> line_num, line_pos |-> line_pos]

(***************************************************************************)
(* scanner/scanner.rs                                                      *)
(***************************************************************************)
NoErr == "none"

\* HashMap reserved_words of Scanner::new.  SWITCH, CASE and DEFAULT are named
\* by the table but are no variants of TokenType.
reserved_words ==
    << <<"def", "DEF">>, <<"if", "IF">>, <<"elif", "ELIF">>, <<"else", "ELSE">>,
       <<"for", "FOR">>, <<"while", "WHILE">>, <<"until", "UNTIL">>,
       <<"switch", "SWITCH">>, <<"case", "CASE">>, <<"default", "DEFAULT">>,
       <<"in", "IN">>, <<"import", "IMPORT">>, <<"true", "TRUE">>,
       <<"false", "FALSE">>, <<"nil", "NIL">>, <<"debug", "DEBUG">>,
       <<"return", "RETURN">> >>

\* The spelling of a reserved word as a sequence of characters.
Spelling ==
    [w \in {reserved_words[i][1] : i \in DOMAIN reserved_words} |->
        CASE w = "def" -> <<"d", "e", "f">>
          [] w = "if" -> <<"i", "f">>
          [] w = "elif" -> <<"e", "l", "i", "f">>
          [] w = "else" -> <<"e", "l", "s", "e">>
          [] w = "for" -> <<"f", "o", "r">>
          [] w = "while" -> <<"w", "h", "i", "l", "e">>
          [] w = "until" -> <<"u", "n", "t", "i", "l">>
          [] w = "switch" -> <<"s", "w", "i", "t", "c", "h">>
          [] w = "case" -> <<"c", "a", "s", "e">>
          [] w = "default" -> <<"d", "e", "f", "a", "u", "l", "t">>
          [] w = "in" -> <<"i", "n">>
          [] w = "import" -> <<"i", "m", "p", "o", "r", "t">>
          [] w = "true" -> <<"t", "r", "u", "e">>
          [] w = "false" -> <<"f", "a", "l", "s", "e">>
          [] w = "nil" -> <<"n", "i", "l">>
          [] w = "debug" -> <<"d", "e", "b", "u", "g">>
          [] w = "return" -> <<"r", "e", "t", "u", "r", "n">>]

\* self.reserved_words.get(text): the token type, or "" for None.
reserved_words_get(text) ==
    IF \E i \in DOMAIN reserved_words : Spelling[reserved_words[i][1]] = text
    THEN reserved_words[CHOOSE i \in DOMAIN reserved_words :
                            Spelling[reserved_words[i][1]] = text][2]
    ELSE ""

\* panic!("{}:{}:{}: {}", filename, line_num, line_pos, message)
Scanner_error(s, line_num, line_pos, message) ==
    IF s.err # NoErr THEN s
    ELSE [s EXCEPT !.err = message, !.err_line = line_num, !.err_pos = line_pos]

\* self.input[position]: defined only inside the buffer.
get_char(s, position) == s.program[position + 1]

next_char(s) ==
    IF s.err # NoErr THEN s
    ELSE LET position == s.position + 1 IN
         IF position = Len(s.program)
         THEN [s EXCEPT !.position = position, !.ch = EOF_CHAR]
         ELSE IF position > Len(s.program)
         THEN \* get_char indexes past the end of the slice: the index panics
              [s EXCEPT !.position = position, !.err = "index out of bounds",
                        !.err_line = s.line_num, !.err_pos = s.line_pos]
         ELSE LET c == get_char(s, position) IN
              [s EXCEPT !.position = position, !.ch = c,
                        !.line_num = IF c = LF THEN @ + 1 ELSE @,
                        !.line_pos = @ + 1]

\* peek_char that sees the end of the input wherever it looks.
peek_char_none(s, num) == EOF_CHAR

peek_char(s, num) ==
    LET new_pos == s.position + num IN
    IF new_pos >= Len(s.program) THEN EOF_CHAR ELSE get_char(s, new_pos)

RECURSIVE next_charx(_, _)
next_charx(s, num) ==
    IF num <= 0 THEN s ELSE next_charx(next_char(s), num - 1)

Scanner_new(program) ==
    next_char([program |-> program, line_num |-> 1, line_pos |-> 0,
               position |-> -1, ch |-> EOF_CHAR,
               err |-> NoErr, err_line |-> 0, err_pos |-> 0])

\* is_letter without the underscore.
is_letter_no_underscore(s) ==
    \/ Ord(s.ch) >= Ord("a") /\ Ord(s.ch) <= Ord("z")
    \/ Ord(s.ch) >= Ord("A") /\ Ord(s.ch) <= Ord("Z")

is_letter(s) ==
    \/ Ord(s.ch) >= Ord("a") /\ Ord(s.ch) <= Ord("z")
    \/ Ord(s.ch) >= Ord("A") /\ Ord(s.ch) <= Ord("Z")
    \/ s.ch = "_"

is_digit(s) == Ord(s.ch) >= Ord("0") /\ Ord(s.ch) <= Ord("9")

\* `a && b || c` groups as `(a && b) || c`.
is_hex(s) ==
    LET next_char_ == peek_char(s, 1) IN
    (s.ch = "0" /\ next_char_ = "x") \/ next_char_ = "X"

hexdigit_of(c) ==
    IF Ord(c) >= Ord("0") /\ Ord(c) <= Ord("9") THEN Ord(c) - Ord("0")
    ELSE IF Ord(c) >= Ord("a") /\ Ord(c) <= Ord("f") THEN Ord(c) - Ord("a") + 10
    ELSE IF Ord(c) >= Ord("A") /\ Ord(c) <= Ord("F") THEN Ord(c) - Ord("A") + 10
    ELSE -1

read_hexdigit(s) == hexdigit_of(s.ch)

is_long_comment(s) ==
    s.ch = "=" /\ peek_char(s, 1) = "=" /\ peek_char(s, 2) = "="

RECURSIVE line_comment(_)
\* the inner loop of whitespace(): from '#' up to '\n' or the end
line_comment(s) ==
    IF s.err = NoErr /\ s.ch # LF /\ s.ch # EOF_CHAR
    THEN line_comment(next_char(s))
    ELSE s

RECURSIVE whitespace(_)
whitespace(s) ==
    IF s.err = NoErr /\ (s.ch = " " \/ s.ch = CR \/ s.ch = TAB \/ s.ch = "#")
    THEN IF s.ch = "#" THEN whitespace(line_comment(s))
         ELSE whitespace(next_char(s))
    ELSE s

RECURSIVE long_comment_body(_)
\* the loop of long_comment(): up to the closing '===' or the end
long_comment_body(s) ==
    IF s.err = NoErr /\ s.ch # EOF_CHAR
    THEN IF s.ch = "=" /\ peek_char(s, 1) = "=" /\ peek_char(s, 2) = "="
         THEN s
         ELSE long_comment_body(next_char(s))
    ELSE s

long_comment(s) ==
    LET closing(s1) ==
            IF s1.err # NoErr THEN s1
            ELSE IF s1.ch = EOF_CHAR
            THEN Scanner_error(s1, s1.line_num, s1.line_pos,
                               "unterminated long comment")
            ELSE next_charx(s1, 3)
    IN  closing(long_comment_body(next_charx(s, 3)))

\* get_literal!(program, s, e)
get_literal(program, start, end) == SubSeq(program, start + 1, end)

\* One step of the checked accumulation of from_str_radix, acc * radix + d on
\* the magnitude <<overflowed, a2, a1, a0>>; overflowed is 1 once the i64 range
\* is left.
i64_step(acc, d, radix, negative) ==
    IF acc[1] = 1 THEN acc
    ELSE LET x0 == acc[4] * radix + d
             x1 == acc[3] * radix + (x0 \div LimbBase)
             x2 == acc[2] * radix + (x1 \div LimbBase)
             r == <<x2, x1 % LimbBase, x0 % LimbBase>>
         IN  IF x2 < 2 ^ 15 \/ (negative /\ r = <<2 ^ 15, 0, 0>>)
             THEN <<0>> \o r ELSE <<1, 0, 0, 0>>

RECURSIVE i64_digits(_, _, _, _)
i64_digits(acc, digits, radix, negative) ==
    IF digits = <<>> THEN acc
    ELSE i64_digits(i64_step(acc, hexdigit_of(Head(digits)), radix, negative),
                    Tail(digits), radix, negative)

\* i64::from_str_radix(src, radix) for radix 10 and 16: [is_err, value].
\* An empty string, a lone sign, a character that is no digit of the radix and
\* a value outside the i64 range are errors; one leading '+' or '-' is allowed.
from_str_radix(src, radix) ==
    LET signed == src # <<>> /\ (Head(src) = "+" \/ Head(src) = "-")
        negative == src # <<>> /\ Head(src) = "-"
        digits == IF signed THEN Tail(src) ELSE src
        valid == \A k \in DOMAIN digits :
                    LET digit == hexdigit_of(digits[k]) IN digit >= 0 /\ digit < radix
        result(mag) ==
            IF digits = <<>> \/ ~valid \/ mag[1] = 1
            THEN [is_err |-> TRUE, value |-> I64(0)]
            ELSE [is_err |-> FALSE,
                  value |-> <<IF negative /\ Tail(mag) # <<0, 0, 0>> THEN -1 ELSE 1>>
                                \o Tail(mag)]
    IN  result(i64_digits(<<0, 0, 0, 0>>, digits, radix, negative))

RECURSIVE strip_leading_zeros(_)
strip_leading_zeros(digits) ==
    IF digits # <<>> /\ Head(digits) = "0"
    THEN strip_leading_zeros(Tail(digits)) ELSE digits

RECURSIVE strip_trailing_zeros(_)
strip_trailing_zeros(digits) ==
    IF digits # <<>> /\ digits[Len(digits)] = "0"
    THEN strip_trailing_zeros(SubSeq(digits, 1, Len(digits) - 1)) ELSE digits

\* f64::from_str(text) for text of the form digits '.' digits: the numeral with
\* the zeros that do not change its value removed (binary rounding is left out).
f64_from_str(text) ==
    LET dot == CHOOSE k \in DOMAIN text : text[k] = "."
    IN  strip_leading_zeros(SubSeq(text, 1, dot - 1)) \o <<".">>
            \o strip_trailing_zeros(SubSeq(text, dot + 1, Len(text)))

RECURSIVE skip_letters(_)
skip_letters(s) ==
    IF s.err = NoErr /\ is_letter(s) THEN skip_letters(next_char(s)) ELSE s

RECURSIVE skip_digits(_)
skip_digits(s) ==
    IF s.err = NoErr /\ is_digit(s) THEN skip_digits(next_char(s)) ELSE s

\* Every scanning routine returns the scanner after it and the token it filled.
Scanned(s, token) == [s |-> s, token |-> token]

word_token(s, token) ==
    LET typed(s1, text, word) ==
            IF s1.err # NoErr THEN Scanned(s1, token)
            ELSE IF word # ""
            THEN Scanned(s1, [token EXCEPT
                     !.text = text, !.token_type = word,
                     !.value = IF word = "TRUE" THEN BoolValue(TRUE)
                               ELSE IF word = "FALSE" THEN BoolValue(FALSE)
                               ELSE @])
            ELSE Scanned(s1, [token EXCEPT !.text = text, !.token_type = "IDENT"])
        spelled(s1, text) == typed(s1, text, reserved_words_get(text))
        letters(s1) == spelled(s1, get_literal(s.program, s.position, s1.position))
    IN  letters(skip_letters(s))

\* The end of number_token and of number_token_hex: `value`, the result of
\* from_str_radix on the digits of `text`, becomes the token's value, or the
\* literal is rejected.
integer_value(s, token, text, value) ==
    IF value.is_err
    THEN Scanned(Scanner_error(s, token.line_num, token.line_pos,
                               "number literal was too large"),
                 [token EXCEPT !.text = text, !.token_type = "INTEGER"])
    ELSE Scanned(s, [token EXCEPT !.text = text, !.token_type = "INTEGER",
                                  !.value = IntegerValue(value.value)])

number_token(s, token) ==
    LET literal(s2, is_float, text) ==
            IF s2.err # NoErr THEN Scanned(s2, token)
            ELSE IF ~is_float
            THEN integer_value(s2, token, text, from_str_radix(text, 10))
            ELSE Scanned(s2, [token EXCEPT !.text = text, !.token_type = "FLOAT",
                                           !.value = FloatValue(f64_from_str(text))])
        digits(s2, is_float) ==
            literal(s2, is_float, get_literal(s.program, s.position, s2.position))
        fraction(s1, is_float) ==
            digits(IF is_float THEN skip_digits(next_char(s1)) ELSE s1, is_float)
        point(s1) == fraction(s1, s1.ch = "." /\ peek_char(s1, 1) # ".")
    IN  point(skip_digits(s))

RECURSIVE hex_digits(_)
\* the loop of number_token_hex: `while self.read_hexdigit() != 1`
hex_digits(s) ==
    IF s.err = NoErr /\ read_hexdigit(s) # 1 THEN hex_digits(next_char(s)) ELSE s

number_token_hex(s, token) ==
    LET literal(s1, text) ==
            IF s1.err # NoErr THEN Scanned(s1, token)
            ELSE integer_value(s1, token, text,
                               from_str_radix(SubSeq(text, 3, Len(text)), 16))
        digits(s1) == literal(s1, get_literal(s.program, s.position, s1.position))
    IN  digits(hex_digits(next_charx(s, 2)))

RECURSIVE read_hex_escape_loop(_, _, _, _)
\* the `for _ in 0..2` of read_hex_escape: [s, value] after `n` more rounds
read_hex_escape_loop(s, delimit, value, n) ==
    IF n = 0 \/ s.err # NoErr THEN [s |-> s, value |-> value]
    ELSE LET round(s1, digit) ==
                 IF s1.err # NoErr THEN [s |-> s1, value |-> value]
                 ELSE IF s1.ch = delimit \/ s1.ch = EOF_CHAR \/ digit = -1
                 THEN [s |-> Scanner_error(s1, s1.line_num, s1.line_pos,
                                           "incomplete hex escape sequence"),
                       value |-> value]
                 ELSE read_hex_escape_loop(s1, delimit, (value * 16) + digit, n - 1)
             read(s1) == round(s1, read_hexdigit(s1))
         IN  read(next_char(s))

\* [s, ch]: the scanner after the escape and the character it denotes
read_hex_escape(s, delimit) ==
    LET escaped(r) ==
            [s |-> r.s, ch |-> IF r.s.err = NoErr THEN Chr(r.value % 256) ELSE "?"]
    IN  escaped(read_hex_escape_loop(s, delimit, 0, 2))

RECURSIVE string_body(_, _, _)
\* the loop of string_token: [s, buf] at the closing delimiter or the end
string_body(s, delimit, buf) ==
    IF s.err # NoErr \/ s.ch = delimit \/ s.ch = EOF_CHAR
    THEN [s |-> s, buf |-> buf]
    ELSE IF s.ch = "\\"
    THEN LET s1 == next_char(s) IN
         IF s1.err # NoErr THEN [s |-> s1, buf |-> buf]
         ELSE CASE s1.ch = "\"" -> string_body(next_char(s1), delimit, Append(buf, "\""))
                [] s1.ch = "\\" -> string_body(next_char(s1), delimit, Append(buf, "\\"))
                [] s1.ch = "'" -> string_body(next_char(s1), delimit, Append(buf, "'"))
                [] s1.ch = "n" -> string_body(next_char(s1), delimit, Append(buf, LF))
                [] s1.ch = "r" -> string_body(next_char(s1), delimit, Append(buf, CR))
                [] s1.ch = "t" -> string_body(next_char(s1), delimit, Append(buf, TAB))
                [] s1.ch = "x" ->
                     LET pushed(e) ==
                             string_body(next_char(e.s), delimit, Append(buf, e.ch))
                     IN  pushed(read_hex_escape(s1, delimit))
                [] OTHER ->
                     [s |-> Scanner_error(s1, s1.line_num, s1.line_pos,
                                          "invalid escape character"),
                      buf |-> buf]
    ELSE string_body(next_char(s), delimit, Append(buf, s.ch))

string_token(s, token) ==
    LET closing(r) ==
            IF r.s.err # NoErr THEN Scanned(r.s, token)
            ELSE IF r.s.ch = EOF_CHAR
            THEN Scanned(Scanner_error(r.s, r.s.line_num, r.s.line_pos,
                                       "unterminated string literal"),
                         token)
            ELSE Scanned(next_char(r.s),
                         [token EXCEPT !.text = r.buf, !.token_type = "STRING",
                                       !.value = StringValue(r.buf)])
    IN  closing(string_body(next_char(s), s.ch, <<>>))

\* The `match self.ch` of next_token, before its closing next_char():
\* one-, two- and three-character symbols by longest match.
symbol_token(s, token) ==
    LET c == s.ch
        p1 == peek_char(s, 1)
        one(ty) == Scanned(s, [token EXCEPT !.text = <<c>>, !.token_type = ty])
        two(ty) == LET s1 == next_char(s) IN
                   Scanned(s1, [token EXCEPT !.text = <<c, s1.ch>>,
                                             !.token_type = ty])
        shift(ty_assign, ty) ==
            LET s1 == next_char(s) IN
            IF peek_char(s1, 1) = "="
            THEN LET s2 == next_char(s1) IN
                 Scanned(s2, [token EXCEPT !.text = <<c, s1.ch, s2.ch>>,
                                           !.token_type = ty_assign])
            ELSE Scanned(s1, [token EXCEPT !.text = <<c, s1.ch>>,
                                           !.token_type = ty])
    IN  CASE c = "|" -> IF p1 = "|" THEN two("LOGICAL_OR")
                        ELSE IF p1 = "=" THEN two("BITWISE_OR_ASSIGN")
                        ELSE one("BITWISE_OR")
          [] c = "&" -> IF p1 = "&" THEN two("LOGICAL_AND")
                        ELSE IF p1 = "=" THEN two("BITWISE_AND_ASSIGN")
                        ELSE one("BITWISE_AND")
          [] c = "=" -> IF p1 = "=" THEN two("EQL")
                        ELSE IF p1 = ">" THEN two("ASSIGN_ARROW")
                        ELSE one("ASSIGN")
          [] c = "!" -> IF p1 = "=" THEN two("NOT_EQL") ELSE one("BANG")
          [] c = "<" -> IF p1 = "=" THEN two("LE")
                        ELSE IF p1 = "<" THEN shift("LEFT_SHIFT_ASSIGN", "LEFT_SHIFT")
                        ELSE one("LT")
          [] c = ">" -> IF p1 = "=" THEN two("GE")
                        ELSE IF p1 = ">" THEN shift("RIGHT_SHIFT_ASSIGN", "RIGHT_SHIFT")
                        ELSE one("GT")
          [] c = "^" -> IF p1 = "=" THEN two("BITWISE_XOR_ASSIGN")
                        ELSE one("BITWISE_XOR")
          [] c = "." -> IF p1 = "." THEN two("DOTDOT") ELSE one("DOT")
          [] c = "+" -> IF p1 = "=" THEN two("PLUS_ASSIGN") ELSE one("PLUS")
          [] c = "-" -> IF p1 = "=" THEN two("MINUS_ASSIGN") ELSE one("MINUS")
          [] c = "*" -> IF p1 = "=" THEN two("MUL_ASSIGN") ELSE one("MUL")
          [] c = "/" -> IF p1 = "=" THEN two("DIV_ASSIGN") ELSE one("DIV")
          [] c = "%" -> IF p1 = "=" THEN two("MODULO_ASSIGN") ELSE one("MODULO")
          [] c = "~" -> one("COMPL")
          [] c = "(" -> one("LPAREN")
          [] c = ")" -> one("RPAREN")
          [] c = "[" -> one("LBRACK")
          [] c = "]" -> one("RBRACK")
          [] c = "{" -> one("LBRACE")
          [] c = "}" -> one("RBRACE")
          [] c = "," -> one("COMMA")
          [] c = ";" -> one("SEMICOLON")
          [] c = LF -> Scanned([s EXCEPT !.line_pos = 0],
                               [token EXCEPT !.text = <<c>>,
                                             !.token_type = "NEWLINE",
                                             !.line_num = @ - 1])
          [] OTHER -> Scanned(Scanner_error(s, s.line_num, s.line_pos,
                                            "unrecognized character"),
                              [token EXCEPT !.text = <<c>>])

\* The branches of next_token for a character that is not the end of the
\* input: word, hexadecimal number, number, string, symbol (a symbol is
\* followed by the closing next_char()).
token_at(s, token) ==
    IF is_letter(s) THEN word_token(s, token)
    ELSE IF is_hex(s) THEN number_token_hex(s, token)
    ELSE IF is_digit(s) THEN number_token(s, token)
    ELSE IF s.ch = "\"" \/ s.ch = "'" THEN string_token(s, token)
    ELSE LET closing(r) == Scanned(next_char(r.s), r.token)
         IN  closing(symbol_token(s, token))

\* The start of next_token: whitespace and line comments are skipped, then
\* one block comment.  The scanner stands where the token starts.
token_start(s0) ==
    LET comment(s1) ==
            IF s1.err = NoErr /\ is_long_comment(s1) THEN long_comment(s1) ELSE s1
    IN  comment(whitespace(s0))

\* next_token with the end of the input counted as one more character read.
next_token_counting_eof(s0) ==
    LET token_from(s, token) ==
            IF s.err # NoErr THEN Scanned(s, token)
            ELSE IF s.ch = EOF_CHAR
            THEN Scanned([s EXCEPT !.position = @ + 1, !.line_pos = @ + 1],
                         [token EXCEPT !.text = <<>>, !.token_type = "EOF"])
            ELSE token_at(s, token)
        declared(s) == token_from(s, Token_new(s.line_num, s.line_pos))
    IN  declared(token_start(s0))

\* Scanner::next_token: [s, token].  When s.err is set the call panicked and
\* returned no token.
Scanner_next_token(s0) ==
    LET token_from(s, token) ==
            IF s.err # NoErr THEN Scanned(s, token)
            ELSE IF s.ch = EOF_CHAR
            THEN Scanned(s, [token EXCEPT !.text = <<>>, !.token_type = "EOF"])
            ELSE token_at(s, token)
        declared(s) == token_from(s, Token_new(s.line_num, s.line_pos))
    IN  declared(token_start(s0))

(***************************************************************************)
(* intermediate/mod.rs                                                     *)
(***************************************************************************)
Node_new(token) == [token |-> token, children |-> <<>>]

add_child(self, node) == [self EXCEPT !.children = Append(@, node)]

\* get_root with the two nodes in each other's place: `node` becomes a
\* child of `self`.
get_root_beneath(self, node) == add_child(self, node)

\* self.get_root(node): `node` becomes the parent of `self`
get_root(self, node) == add_child(node, self)

get_type(self) == self.token.token_type

RECURSIVE to_string_tree(_), children_string(_, _)
\* the `while i < self.children.len()` of to_string_tree
children_string(children, i) ==
    IF i > Len(children) THEN <<>>
    ELSE (IF i > 1 THEN <<" ">> ELSE <<>>) \o to_string_tree(children[i])
             \o children_string(children, i + 1)

to_string_tree(self) ==
    IF Len(self.children) # 0
    THEN <<"(">> \o self.token.text \o <<" ">>
             \o children_string(self.children, 1) \o <<")">>
    ELSE self.token.text

(***************************************************************************)
(* parser/mod.rs                                                           *)
(***************************************************************************)
\* The node handed back by a call that panicked (never part of a tree).
NoNode == Node_new(Token_new(0, 0))

\* Every parsing routine returns the parser after it and the node it built.
\* A panic of the parser itself or of the scanner it pulls from unwinds the
\* whole parse: the parser's `panicked` is TRUE from then on, and every
\* routine entered on a panicked parser hands it back untouched.
Ret(p, node) == [p |-> p, node |-> node]

Parser_new(scanner) ==
    LET filled(r1, r2) ==
            [scanner |-> r2.s,
             current |-> r1.token,
             next |-> IF r1.s.err = NoErr THEN r2.token ELSE r1.token,
             in_subroutine |-> FALSE,
             panicked |-> r2.s.err # NoErr,
             err |-> NoErr, err_line |-> 0, err_pos |-> 0,
             err_prefix |-> NoErr, err_near |-> <<>>]
        second(r1) == filled(r1, Scanner_next_token(r1.s))
    IN  second(Scanner_next_token(scanner))

\* The prefix Parser::error picks from the kind of the current token.
error_prefix(token_type) ==
    IF token_type = "NEWLINE" THEN "unexpected newline, "
    ELSE IF token_type = "EOF" THEN "unexpected end-of-file, "
    ELSE IF is_between(token_type, "STRING", "IDENT")
    THEN "unexpected literal near "
    ELSE IF is_between(token_type, "DEF", "IMPORT")
    THEN "unexpected keyword near "
    ELSE "unexpected symbol near "

\* Parser::error that notes the diagnostic, steps over the refused token and
\* returns to its caller.
Parser_error_skipping(p, message) ==
    IF p.panicked THEN p
    ELSE
    LET noted ==
            IF p.err # NoErr THEN p
            ELSE [p EXCEPT !.err = message,
                           !.err_line = p.current.line_num,
                           !.err_pos = p.current.line_pos,
                           !.err_prefix = error_prefix(p.current.token_type),
                           !.err_near =
                               IF p.current.token_type \in {"NEWLINE", "EOF"}
                               THEN <<>> ELSE p.current.text]
        shifted(r) ==
            [noted EXCEPT !.current = p.next,
                          !.next = IF r.s.err = NoErr THEN r.token ELSE @,
                          !.scanner = r.s,
                          !.panicked = r.s.err # NoErr]
    IN  shifted(Scanner_next_token(p.scanner))

Parser_error(p, message) ==
    IF p.panicked THEN p
    ELSE [p EXCEPT !.panicked = TRUE,
                   !.err = message,
                   !.err_line = p.current.line_num,
                   !.err_pos = p.current.line_pos,
                   !.err_prefix = error_prefix(p.current.token_type),
                   !.err_near = IF p.current.token_type \in {"NEWLINE", "EOF"}
                                THEN <<>> ELSE p.current.text]

\* Parser::next_token that pulls a token without moving `next` to `current`.
Parser_next_token_stale(p) ==
    IF p.panicked THEN p
    ELSE LET shifted(r) ==
                 [p EXCEPT !.next = IF r.s.err = NoErr THEN r.token ELSE @,
                           !.scanner = r.s,
                           !.panicked = r.s.err # NoErr]
         IN  shifted(Scanner_next_token(p.scanner))

Parser_next_token(p) ==
    IF p.panicked THEN p
    ELSE LET shifted(r) ==
                 [p EXCEPT !.current = p.next,
                           !.next = IF r.s.err = NoErr THEN r.token ELSE @,
                           !.scanner = r.s,
                           !.panicked = r.s.err # NoErr]
         IN  shifted(Scanner_next_token(p.scanner))

\* A call of a routine that the parse comes back to from inside of itself:
\* self.next_token(), self.statement(), self.expr(), self.block().  Call
\* lists these routines (and program, where the parse is entered).
RECURSIVE Call(_, _)
self_next_token(p) == Call("next_token", p)
self_statement(p) == Call("statement", p)
self_expr(p) == Call("expr", p)
self_block(p) == Call("block", p)

peek_current(p) == p.current.token_type

peek_next(p) == p.next.token_type

__match(p, token_type, message) ==
    IF p.panicked THEN p
    ELSE IF peek_current(p) # token_type THEN Parser_error(p, message)
    ELSE self_next_token(p)

RECURSIVE skip_newlines(_)
skip_newlines(p) ==
    IF ~p.panicked /\ peek_current(p) = "NEWLINE"
    THEN skip_newlines(self_next_token(p))
    ELSE p

next_and_skip_newlines(p) == skip_newlines(self_next_token(p))

match_and_skip_newlines(p, token_type, message) ==
    skip_newlines(__match(p, token_type, message))

match_line(p, message) == skip_newlines(__match(p, "NEWLINE", message))

is_factor(p) ==
    LET token_type == peek_current(p) IN
    token_type = "MINUS" \/ token_type = "BANG" \/ token_type = "COMPL"

statement_trailer(p) ==
    LET token_type == peek_current(p) IN
    IF p.panicked THEN p
    ELSE IF token_type = "SEMICOLON" THEN skip_newlines(self_next_token(p))
    ELSE IF token_type = "NEWLINE" THEN skip_newlines(p)
    ELSE __match(p, "EOF", "expected end-of-file")

\* block_trailer that lets the closing brace end the last statement.
block_trailer_or_brace(p) ==
    IF p.panicked THEN p
    ELSE IF peek_current(p) = "SEMICOLON" THEN skip_newlines(self_next_token(p))
    ELSE IF peek_current(p) = "RBRACE" THEN p
    ELSE match_line(p, "expected newline")

block_trailer(p) ==
    IF p.panicked THEN p
    ELSE IF peek_current(p) = "SEMICOLON" THEN skip_newlines(self_next_token(p))
    ELSE match_line(p, "expected newline")

\* The text of an imaginary token.
Txt_BLOCK == <<"B", "L", "O", "C", "K">>
Txt_SUB_DECL == <<"S", "U", "B", "_", "D", "E", "C", "L">>
Txt_SUB_LITERAL == <<"S", "U", "B", "_", "L", "I", "T", "E", "R", "A", "L">>
Txt_SUB_PARAMS == <<"S", "U", "B", "_", "P", "A", "R", "A", "M", "S">>
Txt_ELIF == <<"E", "L", "I", "F">>
Txt_SUBSCRIPT == <<"S", "U", "B", "S", "C", "R", "I", "P", "T">>
Txt_CALL == <<"C", "A", "L", "L">>
Txt_ARRAY_DECL == <<"A", "R", "R", "A", "Y", "_", "D", "E", "C", "L">>
Txt_HASH_DECL == <<"H", "A", "S", "H", "_", "D", "E", "C", "L">>
Txt_HASH_ELEM == <<"H", "A", "S", "H", "_", "E", "L", "E", "M">>

\* Node::new(Token::new_imag(text, type, current.line_num, current.line_pos))
Imag(p, text, token_type) ==
    Node_new(Token_new_imag(text, token_type, p.current.line_num,
                            p.current.line_pos))

RECURSIVE statement(_), block(_), block_loop(_, _), expr(_), def_statement(_, _),
          parameter_list_loop(_, _), if_statement(_), if_statement_elifs(_, _),
          control_statement(_), for_statement(_), import_statement(_),
          debug_statement(_), return_statement(_), expr_statement(_),
          assignment_expr(_), factor_expr(_), trailer_expr(_),
          trailer_expr_loop(_, _), atom(_), grouping(_), subscript(_, _),
          call_literal(_, _), array_literal(_), hash_literal(_),
          hash_literal_loop(_, _), expression_list(_, _),
          expression_list_loop(_, _)
RECURSIVE binary_expr(_, _), binary_loop(_, _), binary_loops(_, _, _),
          range_expr(_)

\* The parameter list of a subroutine: the nodes of its identifiers.
parameter_list_loop(p, sequence) ==
    IF p.panicked THEN [p |-> p, sequence |-> sequence]
    ELSE IF peek_current(p) # "IDENT"
    THEN [p |-> Parser_error(p, "expected identifier as argument"),
          sequence |-> sequence]
    ELSE LET seq1 == Append(sequence, Node_new(p.current))
             p1 == self_next_token(p)
         IN  IF p1.panicked \/ peek_current(p1) # "COMMA"
             THEN [p |-> p1, sequence |-> seq1]
             ELSE parameter_list_loop(next_and_skip_newlines(p1), seq1)

parameter_list(p) ==
    IF p.panicked \/ peek_current(p) = "RPAREN"
    THEN [p |-> p, sequence |-> <<>>]
    ELSE parameter_list_loop(p, <<>>)

def_statement(p0, is_literal) ==
    IF p0.panicked THEN Ret(p0, NoNode)
    ELSE
    LET body(p2, node) ==
            LET b == IF p2.panicked THEN Ret(p2, NoNode)
                     ELSE self_block([p2 EXCEPT !.in_subroutine = TRUE])
            IN  IF b.p.panicked THEN Ret(b.p, NoNode)
                ELSE Ret([b.p EXCEPT !.in_subroutine = FALSE],
                         add_child(node, b.node))
        parameters(p1, list, node) ==
            body(__match(skip_newlines(list.p), "RPAREN",
                         "expected ')' to close parameter list"),
                 add_child(node, [Imag(p1, Txt_SUB_PARAMS, "SUB_PARAMS")
                                      EXCEPT !.children = list.sequence]))
        opened(p1, node) == parameters(p1, parameter_list(p1), node)
        declared(named) ==
            opened(match_and_skip_newlines(named.p, "LPAREN",
                                           "expected '(' to open parameter list"),
                   named.node)
        name(p) ==
            declared(IF p.panicked THEN Ret(p, NoNode)
                     ELSE IF ~is_literal
                     THEN IF peek_current(p) # "IDENT"
                          THEN Ret(Parser_error(p, "expected identifier"), NoNode)
                          ELSE Ret(self_next_token(p),
                                   add_child(Imag(p, Txt_SUB_DECL, "SUB_DECL"),
                                             Node_new(p.current)))
                     ELSE Ret(p, Imag(p, Txt_SUB_LITERAL, "SUB_LITERAL")))
    IN  name(self_next_token(p0))

statement(p) ==
    IF p.panicked THEN Ret(p, NoNode)
    ELSE CASE peek_current(p) = "IF" -> if_statement(p)
           [] peek_current(p) \in {"WHILE", "UNTIL"} -> control_statement(p)
           [] peek_current(p) = "FOR" -> for_statement(p)
           [] peek_current(p) = "IMPORT" -> import_statement(p)
           [] peek_current(p) = "DEBUG" -> debug_statement(p)
           [] peek_current(p) = "RETURN" -> return_statement(p)
           [] OTHER -> expr_statement(p)

\* the `while self.peek_current() == ELIF` of if_statement
if_statement_elifs(p, elif_root) ==
    IF ~p.panicked /\ peek_current(p) = "ELIF"
    THEN LET c == self_expr(self_next_token(p))
             b == self_block(c.p)
         IN  if_statement_elifs(b.p, add_child(add_child(elif_root, c.node),
                                               b.node))
    ELSE Ret(p, elif_root)

\* if_statement that adds the ELIF node only when there is an elif clause.
if_statement_elif_if_any(p) ==
    IF p.panicked THEN Ret(p, NoNode)
    ELSE
    LET node == Node_new(p.current)
        c == self_expr(self_next_token(p))
        b == self_block(c.p)
        e == if_statement_elifs(b.p, Imag(b.p, Txt_ELIF, "ELIF"))
        node2 == add_child(add_child(node, c.node), b.node)
        node3 == IF e.node.children = <<>> THEN node2
                 ELSE add_child(node2, e.node)
    IN  IF e.p.panicked THEN Ret(e.p, NoNode)
        ELSE IF peek_current(e.p) = "ELSE"
        THEN LET eb == self_block(self_next_token(e.p)) IN
             Ret(eb.p, add_child(node3, eb.node))
        ELSE Ret(e.p, node3)

if_statement(p) ==
    IF p.panicked THEN Ret(p, NoNode)
    ELSE
    LET node == Node_new(p.current)
        c == self_expr(self_next_token(p))
        b == self_block(c.p)
        e == if_statement_elifs(b.p, Imag(b.p, Txt_ELIF, "ELIF"))
        node3 == add_child(add_child(add_child(node, c.node), b.node), e.node)
    IN  IF e.p.panicked THEN Ret(e.p, NoNode)
        ELSE IF peek_current(e.p) = "ELSE"
        THEN LET eb == self_block(self_next_token(e.p)) IN
             Ret(eb.p, add_child(node3, eb.node))
        ELSE Ret(e.p, node3)

control_statement(p) ==
    IF p.panicked THEN Ret(p, NoNode)
    ELSE
    LET node == Node_new(p.current)
        c == self_expr(self_next_token(p))
        b == self_block(c.p)
    IN  Ret(b.p, add_child(add_child(node, c.node), b.node))

for_statement(p) ==
    IF p.panicked THEN Ret(p, NoNode)
    ELSE
    LET node == Node_new(p.current)
        p1 == self_next_token(p)
    IN  IF p1.panicked THEN Ret(p1, NoNode)
        ELSE IF peek_current(p1) # "IDENT"
        THEN Ret(Parser_error(p1, "expected identifier"), NoNode)
        ELSE LET node1 == add_child(node, Node_new(p1.current))
                 p2 == __match(self_next_token(p1), "IN",
                               "expected keyword 'in' before expression")
                 c == self_expr(p2)
                 b == self_block(c.p)
             IN  Ret(b.p, add_child(add_child(node1, c.node), b.node))

import_statement(p) ==
    IF p.panicked THEN Ret(p, NoNode)
    ELSE LET c == self_expr(self_next_token(p)) IN
         Ret(c.p, add_child(Node_new(p.current), c.node))

debug_statement(p) ==
    IF p.panicked THEN Ret(p, NoNode)
    ELSE LET c == self_expr(self_next_token(p)) IN
         Ret(c.p, add_child(Node_new(p.current), c.node))

return_statement(p) ==
    IF p.panicked THEN Ret(p, NoNode)
    ELSE IF ~p.in_subroutine
    THEN Ret(Parser_error(p, "'return' outside subroutine"), NoNode)
    ELSE LET node == Node_new(p.current)
             p1 == self_next_token(p)
             token_type == peek_current(p1)
         IN  IF p1.panicked THEN Ret(p1, NoNode)
             ELSE IF token_type # "NEWLINE" /\ token_type # "SEMICOLON"
                     /\ token_type # "EOF"
             THEN LET c == self_expr(p1) IN Ret(c.p, add_child(node, c.node))
             ELSE Ret(p1, node)

expr_statement(p) == self_expr(p)

\* block() that skips the line feeds behind its closing '}'.
block_skipping_newlines(p) ==
    IF p.panicked THEN Ret(p, NoNode)
    ELSE
    LET closed(r) ==
            Ret(skip_newlines(__match(r.p, "RBRACE",
                                      "expected '}' to close block")),
                r.node)
        opened(p1) ==
            closed(block_loop(skip_newlines(p1), Imag(p1, Txt_BLOCK, "BLOCK")))
    IN  opened(__match(skip_newlines(p), "LBRACE", "expected '{' to open block"))

\* the `while` of block(): statements up to '}' or the end of the input
block_loop(p, node) ==
    IF ~p.panicked /\ peek_current(p) # "RBRACE" /\ peek_current(p) # "EOF"
    THEN LET st == self_statement(p) IN
         block_loop(block_trailer(st.p), add_child(node, st.node))
    ELSE Ret(p, node)

block(p) ==
    IF p.panicked THEN Ret(p, NoNode)
    ELSE
    LET closed(r) ==
            Ret(__match(r.p, "RBRACE", "expected '}' to close block"), r.node)
        opened(p1) ==
            closed(block_loop(skip_newlines(p1), Imag(p1, Txt_BLOCK, "BLOCK")))
    IN  opened(__match(skip_newlines(p), "LBRACE", "expected '{' to open block"))

expr(p) == assignment_expr(p)

\* assignment_expr with the right operand parsed as an assignment again.
assignment_expr_chained(p) ==
    IF p.panicked THEN Ret(p, NoNode)
    ELSE
    LET assigned(left, r) == Ret(r.p, add_child(left, r.node))
        target(l) ==
            IF ~l.p.panicked /\ peek_current(l.p) = "ASSIGN"
            THEN IF get_type(l.node) \notin {"SUBSCRIPT", "IDENT"}
                 THEN Ret(Parser_error(l.p, ""), NoNode)
                 ELSE assigned(get_root(l.node, Node_new(l.p.current)),
                               self_expr(next_and_skip_newlines(l.p)))
            ELSE l
    IN  target(range_expr(p))

\* assignment_expr without the test of the left operand's kind.
assignment_expr_any_target(p) ==
    IF p.panicked THEN Ret(p, NoNode)
    ELSE
    LET assigned(left, r) == Ret(r.p, add_child(left, r.node))
        target(l) ==
            IF ~l.p.panicked /\ peek_current(l.p) = "ASSIGN"
            THEN assigned(get_root(l.node, Node_new(l.p.current)),
                          range_expr(next_and_skip_newlines(l.p)))
            ELSE l
    IN  target(range_expr(p))

assignment_expr(p) ==
    IF p.panicked THEN Ret(p, NoNode)
    ELSE
    LET assigned(left, r) == Ret(r.p, add_child(left, r.node))
        target(l) ==
            IF ~l.p.panicked /\ peek_current(l.p) = "ASSIGN"
            THEN IF get_type(l.node) \notin {"SUBSCRIPT", "IDENT"}
                 THEN Ret(Parser_error(l.p, ""), NoNode)
                 ELSE assigned(get_root(l.node, Node_new(l.p.current)),
                               range_expr(next_and_skip_newlines(l.p)))
            ELSE l
    IN  target(range_expr(p))

\* The table of the levels with term_expr and arith_expr in each other's
\* place: additive operators would bind tighter than multiplicative ones.
BinaryLevels_swapped ==
    << [name |-> "range_expr", ops |-> {"DOTDOT"}],
       [name |-> "or_expr", ops |-> {"LOGICAL_OR"}],
       [name |-> "and_expr", ops |-> {"LOGICAL_AND"}],
       [name |-> "eql_expr", ops |-> {"EQL", "NOT_EQL"}],
       [name |-> "comp_expr", ops |-> {"LT", "LE", "GT", "GE"}],
       [name |-> "bit_or_expr", ops |-> {"BITWISE_OR"}],
       [name |-> "xor_expr", ops |-> {"BITWISE_XOR"}],
       [name |-> "bit_and_expr", ops |-> {"BITWISE_AND"}],
       [name |-> "shift_expr", ops |-> {"LEFT_SHIFT", "RIGHT_SHIFT"}],
       [name |-> "term_expr", ops |-> {"MUL", "DIV", "MODULO"}],
       [name |-> "arith_expr", ops |-> {"PLUS", "MINUS"}] >>

\* range_expr, or_expr, and_expr, eql_expr, comp_expr, bit_or_expr, xor_expr,
\* bit_and_expr, shift_expr, arith_expr and term_expr are one routine written
\* eleven times: each parses an operand with the routine of the next level and
\* folds the operators of its own level.  The table lists them from the lowest
\* precedence to the highest, each with the operators its `while` tests for.
BinaryLevels ==
    << [name |-> "range_expr", ops |-> {"DOTDOT"}],
       [name |-> "or_expr", ops |-> {"LOGICAL_OR"}],
       [name |-> "and_expr", ops |-> {"LOGICAL_AND"}],
       [name |-> "eql_expr", ops |-> {"EQL", "NOT_EQL"}],
       [name |-> "comp_expr",
        ops |-> {ty \in DOMAIN TokenTypeOrd : is_between(ty, "LT", "GE")}],
       [name |-> "bit_or_expr", ops |-> {"BITWISE_OR"}],
       [name |-> "xor_expr", ops |-> {"BITWISE_XOR"}],
       [name |-> "bit_and_expr", ops |-> {"BITWISE_AND"}],
       [name |-> "shift_expr", ops |-> {"LEFT_SHIFT", "RIGHT_SHIFT"}],
       [name |-> "arith_expr", ops |-> {"PLUS", "MINUS"}],
       [name |-> "term_expr",
        ops |-> {ty \in DOMAIN TokenTypeOrd : is_between(ty, "MUL", "MODULO")}] >>

\* The level of the routine with the given name.
LevelOf(name) == CHOOSE k \in DOMAIN BinaryLevels : BinaryLevels[k].name = name

\* the `while` of the routine of one level, entered with l = [p, node]: the
\* parser and the operand parsed so far
binary_loop(l, level) ==
    IF l.p.panicked THEN l
    ELSE IF peek_current(l.p) \in BinaryLevels[level].ops
    THEN LET r == binary_expr(next_and_skip_newlines(l.p), level + 1) IN
         binary_loop(Ret(r.p, add_child(get_root(l.node, Node_new(l.p.current)),
                                        r.node)),
                     level)
    ELSE l

\* The loops of the levels k, k - 1, ..., level, in that order, on the operand l.
binary_loops(l, k, level) ==
    IF l.p.panicked \/ k < level THEN l
    ELSE binary_loops(binary_loop(l, k), k - 1, level)

\* The routine of one level.  Its operand is the routine of the next level,
\* whose operand is the routine of the level after that, and so on down to
\* factor_expr: the calls nest without reading a token, so the routine is
\* factor_expr followed by the loop of every level from the last one up to
\* its own.
binary_expr(p, level) ==
    IF p.panicked THEN Ret(p, NoNode)
    ELSE binary_loops(factor_expr(p), Len(BinaryLevels), level)

range_expr(p) == binary_expr(p, LevelOf("range_expr"))

\* factor_expr without the retagging of a prefix `-`.
factor_expr_no_retag(p) ==
    IF p.panicked THEN Ret(p, NoNode)
    ELSE IF is_factor(p)
    THEN LET applied(left, r) == Ret(r.p, add_child(left, r.node))
             operand(left, p2) ==
                 applied(left, IF is_factor(p2) THEN factor_expr(p2)
                               ELSE trailer_expr(p2))
         IN  operand(Node_new(p.current), next_and_skip_newlines(p))
    ELSE trailer_expr(p)

factor_expr(p) ==
    IF p.panicked THEN Ret(p, NoNode)
    ELSE IF is_factor(p)
    THEN LET applied(left, r) == Ret(r.p, add_child(left, r.node))
             operand(left, p2) ==
                 applied(left, IF is_factor(p2) THEN factor_expr(p2)
                               ELSE trailer_expr(p2))
             operator(p1) ==
                 operand(Node_new(p1.current), next_and_skip_newlines(p1))
         IN  operator(IF peek_current(p) = "MINUS"
                      THEN [p EXCEPT !.current.token_type = "NEGATE"] ELSE p)
    ELSE trailer_expr(p)

trailer_expr_loop(p, left) ==
    LET again(r) == trailer_expr_loop(r.p, r.node) IN
    IF p.panicked THEN Ret(p, left)
    ELSE IF peek_current(p) = "LBRACK" THEN again(subscript(p, left))
    ELSE IF peek_current(p) = "LPAREN" THEN again(call_literal(p, left))
    ELSE Ret(p, left)

trailer_expr(p) ==
    IF p.panicked THEN Ret(p, NoNode)
    ELSE LET trailers(a) == trailer_expr_loop(a.p, a.node) IN trailers(atom(p))

atom(p) ==
    IF p.panicked THEN Ret(p, NoNode)
    ELSE CASE peek_current(p) \in {"STRING", "INTEGER", "FLOAT", "TRUE", "FALSE",
                                   "NIL", "IDENT"} ->
                Ret(self_next_token(p), Node_new(p.current))
           [] peek_current(p) = "LBRACK" -> array_literal(p)
           [] peek_current(p) = "LBRACE" -> hash_literal(p)
           [] peek_current(p) = "LPAREN" -> grouping(p)
           [] peek_current(p) = "DEF" -> def_statement(p, TRUE)
           [] OTHER -> Ret(Parser_error(p, "expected expression"), NoNode)

grouping(p) ==
    IF p.panicked THEN Ret(p, NoNode)
    ELSE LET r == self_expr(self_next_token(p)) IN
         Ret(__match(r.p, "RPAREN", "expected ')'"), r.node)

\* subscript with the index placed before the subscripted expression.
subscript_index_first(p, left) ==
    IF p.panicked THEN Ret(p, NoNode)
    ELSE
    LET node == get_root(left, Imag(p, Txt_SUBSCRIPT, "SUBSCRIPT"))
        r == self_expr(next_and_skip_newlines(p))
    IN  Ret(__match(skip_newlines(r.p), "RBRACK",
                    "expected ']' to close subscript"),
            [node EXCEPT !.children = <<r.node>> \o @])

subscript(p, left) ==
    IF p.panicked THEN Ret(p, NoNode)
    ELSE
    LET node == get_root(left, Imag(p, Txt_SUBSCRIPT, "SUBSCRIPT"))
        r == self_expr(next_and_skip_newlines(p))
    IN  Ret(__match(skip_newlines(r.p), "RBRACK",
                    "expected ']' to close subscript"),
            add_child(node, r.node))

call_literal(p, left) ==
    IF p.panicked THEN Ret(p, NoNode)
    ELSE
    LET node == get_root(left, Imag(p, Txt_CALL, "CALL"))
        list == expression_list(next_and_skip_newlines(p), "RPAREN")
    IN  Ret(__match(skip_newlines(list.p), "RPAREN",
                    "expected ')' to close the function call"),
            [node EXCEPT !.children = @ \o list.sequence])

array_literal(p) ==
    IF p.panicked THEN Ret(p, NoNode)
    ELSE
    LET node == Imag(p, Txt_ARRAY_DECL, "ARRAY_DECL")
        list == expression_list(next_and_skip_newlines(p), "RBRACK")
    IN  Ret(__match(skip_newlines(list.p), "RBRACK",
                    "expected ']' to close array literal"),
            [node EXCEPT !.children = @ \o list.sequence])

\* the `loop` of hash_literal: one HASH_ELEM per round
hash_literal_loop(p, node) ==
    IF p.panicked THEN Ret(p, node)
    ELSE
    LET elem == Imag(p, Txt_HASH_ELEM, "HASH_ELEM")
        k == self_expr(p)
        v == self_expr(__match(k.p, "ASSIGN_ARROW", "expected '=>'"))
        node1 == add_child(node, add_child(add_child(elem, k.node), v.node))
    IN  IF v.p.panicked \/ peek_current(v.p) # "COMMA"
        THEN Ret(v.p, node1)
        ELSE hash_literal_loop(next_and_skip_newlines(v.p), node1)

hash_literal(p) ==
    IF p.panicked THEN Ret(p, NoNode)
    ELSE
    LET node == Imag(p, Txt_HASH_DECL, "HASH_DECL")
        closed(r) ==
            Ret(__match(skip_newlines(r.p), "RBRACE",
                        "expected '}' to close hash literal"),
                r.node)
        opened(p1) ==
            IF p1.panicked THEN Ret(p1, NoNode)
            ELSE IF peek_current(p1) = "RBRACE"
            THEN Ret(self_next_token(p1), node)
            ELSE closed(hash_literal_loop(p1, node))
    IN  opened(next_and_skip_newlines(p))

expression_list_loop(p, sequence) ==
    IF p.panicked THEN [p |-> p, sequence |-> sequence]
    ELSE LET e == self_expr(p)
             seq1 == Append(sequence, e.node)
         IN  IF e.p.panicked \/ peek_current(e.p) # "COMMA"
             THEN [p |-> e.p, sequence |-> seq1]
             ELSE expression_list_loop(next_and_skip_newlines(e.p), seq1)

expression_list(p, end) ==
    IF p.panicked \/ peek_current(p) = end
    THEN [p |-> p, sequence |-> <<>>]
    ELSE expression_list_loop(p, <<>>)

\* program() without its loop: one statement is parsed.
program_loop_first(p, node) ==
    IF ~p.panicked /\ peek_current(p) # "EOF"
    THEN LET ended(st) ==
                 Ret(statement_trailer(st.p), add_child(node, st.node))
         IN  ended(IF peek_current(p) = "DEF" /\ peek_next(p) # "LPAREN"
                   THEN def_statement(p, FALSE)
                   ELSE self_statement(p))
    ELSE Ret(p, node)

RECURSIVE program_loop(_, _)
\* the `while self.peek_current() != EOF` of program()
program_loop(p, node) ==
    IF ~p.panicked /\ peek_current(p) # "EOF"
    THEN LET ended(st) ==
                 program_loop(statement_trailer(st.p), add_child(node, st.node))
         IN  ended(IF peek_current(p) = "DEF" /\ peek_next(p) # "LPAREN"
                   THEN def_statement(p, FALSE)
                   ELSE self_statement(p))
    ELSE Ret(p, node)

\* Parser::program: [p, node]; when p.panicked the call panicked, no tree.
program(p) ==
    IF p.panicked THEN Ret(p, NoNode)
    ELSE program_loop(skip_newlines(p), Imag(p, Txt_BLOCK, "BLOCK"))

Call(routine, p) ==
    CASE routine = "next_token" -> Parser_next_token(p)
      [] routine = "statement" -> statement(p)
      [] routine = "expr" -> expr(p)
      [] routine = "block" -> block(p)
      [] routine = "program" -> program(p)

(***************************************************************************)
(* The state machine.  A scanner is built over a source text; then either  *)
(* its next_token is called directly, again and again (as the test harness *)
(* of scanner_test.rs does), or a parser is built on it and program() run. *)
(***************************************************************************)
MaxLen == 3      \* longest tail of characters enumerated exhaustively
MaxCalls == 6    \* direct next_token calls made on one scanner
MaxStmts == 2    \* statements in an enumerated block or program
MaxPairs == 2    \* pairs in an enumerated hash literal

\* The characters the enumerated source texts are made of.
ScanAlphabet == {"0", "x", "X", "1", "4", "a", LF, " ", "=", "#", "\""}

Strings(alphabet, n) == UNION {[1..k -> alphabet] : k \in 0..n}

\* What an enumerated tail is appended to: nothing, a hex prefix, a block
\* comment on one line and on two, a string literal over two lines.
ScanPrefixes ==
    { <<>>,
      <<"0", "x">>,
      <<"=", "=", "=", "a", "=", "=", "=">>,
      <<"=", "=", "=", LF, "=", "=", "=">>,
      <<"\"", LF, "\"">> }

ScanNamed ==
    { <<"0", "x", "4", "1", "2", "9">>,
      <<"0", "X", "4", "1", "2", "9">>,
      <<"a", LF, "b">> }

ScanPrograms ==
    ScanNamed \cup
    {pre \o tail : pre \in ScanPrefixes, tail \in Strings(ScanAlphabet, MaxLen)}

NoToken == Token_new(0, 0)
NoParser == [built |-> FALSE]
NoTree == NoNode

\* sc: the scanner; prev: the scanner as it was before the last direct
\* next_token call; tok: the token last returned (to the caller, or into the
\* parser's lookahead); out: the direct calls that returned, each with its
\* token, the offset its token starts at and the scanner's place afterwards;
\* parser, tree: the parser and the tree program() returned; pc: what has
\* been done ("scan": the scanner is ready, "scan_panic": a direct call
\* panicked, "parser": a parser is built, "parsed": program() returned,
\* "panic": Parser::new or program() panicked).
InitOn(programs) ==
    /\ \E text \in programs : sc = Scanner_new(text)
    /\ prev = sc
    /\ parser = NoParser
    /\ tok = NoToken
    /\ out = <<>>
    /\ tree = NoTree
    /\ pc = "scan"

\* A direct call of Scanner::next_token.
NextToken ==
    /\ pc = "scan"
    /\ Len(out) < MaxCalls
    /\ LET returned(r, start) ==
               /\ sc' = r.s
               /\ prev' = sc
               /\ IF r.s.err = NoErr
                  THEN /\ tok' = r.token
                       /\ out' = Append(out, [token |-> r.token,
                                              start |-> start,
                                              position |-> r.s.position,
                                              line_num |-> r.s.line_num,
                                              line_pos |-> r.s.line_pos])
                       /\ pc' = "scan"
                  ELSE /\ tok' = tok
                       /\ out' = out
                       /\ pc' = "scan_panic"
               /\ UNCHANGED <<parser, tree>>
       IN  returned(Scanner_next_token(sc), token_start(sc).position)

\* Parser::new on a scanner nothing was read from yet.
ParserNew ==
    /\ pc = "scan"
    /\ out = <<>>
    /\ LET built(p) ==
               /\ parser' = p
               /\ sc' = p.scanner
               /\ tok' = IF p.panicked THEN tok ELSE p.next
               /\ pc' = IF p.panicked THEN "panic" ELSE "parser"
               /\ UNCHANGED <<prev, out, tree>>
       IN  built(Parser_new(sc))

\* Parser::program, the whole parse.
Program ==
    /\ pc = "parser"
    /\ LET parsed(r) ==
               /\ parser' = r.p
               /\ sc' = r.p.scanner
               /\ tok' = r.p.next
               /\ tree' = IF r.p.panicked THEN NoTree ELSE r.node
               /\ pc' = IF r.p.panicked THEN "panic" ELSE "parsed"
               /\ UNCHANGED <<prev, out>>
       IN  parsed(Call("program", parser))

\* Parser::next_token, one advance of the parser, as a step of its own: the
\* token pulled from the scanner is logged in `out`.
Advance ==
    /\ pc = "parser"
    /\ Len(out) < MaxCalls
    /\ LET advanced(p, start) ==
               /\ parser' = p
               /\ sc' = p.scanner
               /\ prev' = sc
               /\ IF p.panicked
                  THEN /\ tok' = tok
                       /\ out' = out
                       /\ pc' = "panic"
                  ELSE /\ tok' = p.next
                       /\ out' = Append(out, [token |-> p.next,
                                              start |-> start,
                                              position |-> p.scanner.position,
                                              line_num |-> p.scanner.line_num,
                                              line_pos |-> p.scanner.line_pos])
                       /\ pc' = "parser"
               /\ UNCHANGED tree
       IN  advanced(Parser_next_token(parser), token_start(sc).position)

\* Source texts named by the specification's examples.
Src_if_elif_else ==
    << "i", "f", " ", "a", " ", "{", " ", "b", " ", "}", " ", "e", "l", "i",
       "f", " ", "c", " ", "{", " ", "d", " ", "}", " ", "e", "l", "s", "e",
       " ", "{", " ", "e", " ", "}" >>

Src_if_elif_else_semi ==
    << "i", "f", " ", "a", " ", "{", " ", "b", ";", " ", "}", " ", "e", "l",
       "i", "f", " ", "c", " ", "{", " ", "d", ";", " ", "}", " ", "e", "l",
       "s", "e", " ", "{", " ", "e", ";", " ", "}" >>

Src_def_literal ==
    << "d", "e", "f", " ", "(", "x", ")", " ", "{", " ", "r", "e", "t", "u",
       "r", "n", " ", "x", " ", "}" >>

Src_def_named ==
    << "d", "e", "f", " ", "f", "(", "x", ")", " ", "{", " ", "r", "e", "t",
       "u", "r", "n", " ", "x", " ", "}" >>

Src_def_literal_semi ==
    << "d", "e", "f", " ", "(", "x", ")", " ", "{", " ", "r", "e", "t", "u",
       "r", "n", " ", "x", ";", " ", "}" >>

Src_def_named_semi ==
    << "d", "e", "f", " ", "f", "(", "x", ")", " ", "{", " ", "r", "e", "t",
       "u", "r", "n", " ", "x", ";", " ", "}" >>

Src_hash_empty ==
    << "x", " ", "=", " ", "{", "}" >>

Src_return_after_literal ==
    << "d", "e", "f", " ", "f", "(", "x", ")", " ", "{", " ", "y", " ", "=",
       " ", "d", "e", "f", " ", "(", ")", " ", "{", " ", "r", "e", "t", "u",
       "r", "n", ";", " ", "}", ";", " ", "r", "e", "t", "u", "r", "n", ";",
       " ", "}" >>

ParseNamed ==
    { Src_if_elif_else,
      Src_if_elif_else_semi,
      Src_def_literal,
      Src_def_named,
      Src_def_literal_semi,
      Src_def_named_semi,
      Src_hash_empty,
      Src_return_after_literal }

\* The statements enumerated inside a subroutine body, and at top level.
Stmt_return ==
    << "r", "e", "t", "u", "r", "n" >>

Stmt_return_x ==
    << "r", "e", "t", "u", "r", "n", " ", "x" >>

Stmt_x ==
    << "x" >>

Stmt_literal ==
    << "y", " ", "=", " ", "d", "e", "f", " ", "(", ")", " ", "{", " ", "r",
       "e", "t", "u", "r", "n", ";", " ", "}" >>

Stmt_if_return ==
    << "i", "f", " ", "a", " ", "{", " ", "r", "e", "t", "u", "r", "n", ";",
       " ", "}" >>

Stmt_def ==
    << "d", "e", "f", " ", "g", "(", ")", " ", "{", " ", "r", "e", "t", "u",
       "r", "n", ";", " ", "}" >>

SubStmts == {Stmt_return, Stmt_return_x, Stmt_x, Stmt_literal}

TopStmts == {Stmt_return, Stmt_return_x, Stmt_x, Stmt_if_return, Stmt_def}

\* What ends a statement: ';' or a line feed.
Trailers == {<<";">>, <<LF>>}

RECURSIVE Bodies(_, _)
\* Up to n statements, each followed by a trailer.
Bodies(stmts, n) ==
    IF n = 0 THEN {<<>>}
    ELSE LET shorter == Bodies(stmts, n - 1) IN
         shorter \cup {b \o <<" ">> \o st \o tr :
                          b \in shorter, st \in stmts, tr \in Trailers}

\* From one to n statements, the last one followed by no trailer.
OpenBodies(stmts, n) ==
    {b \o <<" ">> \o st : b \in Bodies(stmts, n - 1), st \in stmts}

Open_def_named ==
    << "d", "e", "f", " ", "f", "(", "x", ")", " ", "{" >>

Open_def_literal ==
    << "d", "e", "f", " ", "(", "x", ")", " ", "{" >>

\* A subroutine, named or anonymous, over every enumerated body.
SubPrograms(open, bodies) == {open \o b \o <<" ", "}">> : b \in bodies}

ClosedSubBodies == Bodies(SubStmts, MaxStmts)

OpenSubBodies == OpenBodies(SubStmts, MaxStmts)

NamedSubPrograms == SubPrograms(Open_def_named, ClosedSubBodies \cup OpenSubBodies)

LiteralSubPrograms ==
    SubPrograms(Open_def_literal, ClosedSubBodies \cup OpenSubBodies)

TopPrograms == Bodies(TopStmts, MaxStmts)

\* Hash literals of 0..MaxPairs pairs, with and without a trailing comma.
HashKeys == <<"a", "c", "e", "g">>
HashVals == <<"b", "d", "f", "h">>

RECURSIVE HashPairs(_)
\* ` k1 => v1, k2 => v2 ...` for the first n pairs
HashPairs(n) ==
    IF n = 0 THEN <<>>
    ELSE HashPairs(n - 1) \o (IF n > 1 THEN <<",">> ELSE <<>>)
             \o <<" ", HashKeys[n], " ", "=", ">", " ", HashVals[n]>>

HashProgram(n, trailing) ==
    <<"x", " ", "=", " ", "{">> \o HashPairs(n)
        \o (IF trailing THEN <<",">> ELSE <<>>) \o <<" ", "}">>

HashPrograms ==
    {Src_hash_empty} \cup
    {HashProgram(n, trailing) : n \in 0..MaxPairs, trailing \in BOOLEAN}

\* One lexeme of every kind of token that no statement can continue with
\* after the expression `a`; the parse of `a <lexeme>` stops at the lexeme.
LiteralLexemes ==
    { <<"'", "s", "'">>, <<"1">>, <<"1", ".", "5">>, Spelling["true"],
      Spelling["false"], Spelling["nil"], <<"b">> }

KeywordLexemes ==
    {Spelling[w] : w \in {"def", "if", "elif", "else", "for", "while", "until",
                          "in", "import", "debug", "return"}}

SymbolLexemes ==
    { <<")">>, <<"]">>, <<"}">>, <<",">>, <<".">>, <<"!">>, <<"~">>,
      <<"=", ">">>, <<"+", "=">>, <<"<", "<", "=">> }

ErrPrograms ==
    {<<"a", " ">> \o lexeme :
        lexeme \in LiteralLexemes \cup KeywordLexemes \cup SymbolLexemes}
    \cup {<<"(">>, <<"(", LF>>, <<"a", " ", "=", " ", "(", LF, ")">>}

ParsePrograms ==
    ParseNamed \cup NamedSubPrograms \cup LiteralSubPrograms \cup TopPrograms
        \cup HashPrograms \cup ErrPrograms

Init == InitOn(ScanPrograms)
Next == NextToken
Spec == Init /\ [][Next]_vars

\* Parsing: a parser is built on a fresh scanner and program() is run.
InitParse == InitOn(ParsePrograms)
NextParse == ParserNew \/ Program
ParseSpec == InitParse /\ [][NextParse]_vars

\* One statement of every kind the parser builds a node for.
Arity_if ==
        << "i", "f", " ", "a", " ", "{", " ", "b", ";", " ", "}" >>
Arity_if_else ==
        << "i", "f", " ", "a", " ", "{", " ", "b", ";", " ", "}", " ", "e", "l",
       "s", "e", " ", "{", " ", "c", ";", " ", "}" >>
Arity_if_elif ==
        << "i", "f", " ", "a", " ", "{", " ", "b", ";", " ", "}", " ", "e", "l",
       "i", "f", " ", "c", " ", "{", " ", "d", ";", " ", "}" >>
Arity_if_elif_elif_else ==
        << "i", "f", " ", "a", " ", "{", " ", "b", ";", " ", "}", " ", "e", "l",
       "i", "f", " ", "c", " ", "{", " ", "d", ";", " ", "}", " ", "e", "l",
       "i", "f", " ", "e", " ", "{", " ", "f", ";", " ", "}", " ", "e", "l",
       "s", "e", " ", "{", " ", "g", ";", " ", "}" >>
Arity_while ==
        << "w", "h", "i", "l", "e", " ", "a", " ", "{", " ", "b", ";", " ", "}" >>
Arity_until ==
        << "u", "n", "t", "i", "l", " ", "a", " ", "{", " ", "b", ";", " ", "}" >>
Arity_for ==
        << "f", "o", "r", " ", "i", " ", "i", "n", " ", "a", " ", "{", " ", "b",
       ";", " ", "}" >>
Arity_import ==
        << "i", "m", "p", "o", "r", "t", " ", "a" >>
Arity_debug ==
        << "d", "e", "b", "u", "g", " ", "a", " ", "+", " ", "b" >>
Arity_def_return ==
        << "d", "e", "f", " ", "f", "(", "a", ",", " ", "b", ")", " ", "{", " ",
       "r", "e", "t", "u", "r", "n", ";", " ", "}" >>
Arity_def_return_value ==
        << "d", "e", "f", " ", "f", "(", ")", " ", "{", " ", "r", "e", "t", "u",
       "r", "n", " ", "a", ";", " ", "}" >>
Arity_literal ==
        << "y", " ", "=", " ", "d", "e", "f", " ", "(", "a", ")", " ", "{", " ",
       "r", "e", "t", "u", "r", "n", " ", "a", ";", " ", "}" >>
Arity_hash ==
        << "y", " ", "=", " ", "{", " ", "a", " ", "=", ">", " ", "b", ",", " ",
       "c", " ", "=", ">", " ", "d", " ", "}" >>
Arity_hash_empty ==
        << "y", " ", "=", " ", "{", "}" >>
Arity_array ==
        << "y", " ", "=", " ", "[", "1", ",", " ", "2", "]" >>
Arity_subscript ==
        << "a", "[", "1", "]", "[", "2", "]" >>
Arity_call ==
        << "f", "(", ")" >>
Arity_call_args ==
        << "f", "(", "1", ",", " ", "2", ")", "(", "3", ")" >>
Arity_grouping ==
        << "(", "a", " ", "+", " ", "b", ")", " ", "*", " ", "c" >>

ArityStatements ==
    { Arity_if, Arity_if_else, Arity_if_elif, Arity_if_elif_elif_else,
      Arity_while, Arity_until, Arity_for, Arity_import, Arity_debug,
      Arity_def_return, Arity_def_return_value, Arity_literal, Arity_hash,
      Arity_hash_empty, Arity_array, Arity_subscript, Arity_call,
      Arity_call_args, Arity_grouping }

\* Each statement alone, any two on two lines, and each as the one statement
\* of a `while` block and of a subroutine body.
ArityPrograms ==
    ArityStatements
        \cup {s1 \o <<LF>> \o s2 : s1 \in ArityStatements, s2 \in ArityStatements}
        \cup {    << "w", "h", "i", "l", "e", " ", "a", " ", "{", " " >> \o s \o <<";", " ", "}">> : s \in ArityStatements}
        \cup {    << "d", "e", "f", " ", "f", "(", ")", " ", "{", " " >> \o s \o <<";", " ", "}">> : s \in ArityStatements}

InitArity == InitOn(ArityPrograms)
AritySpec == InitArity /\ [][NextParse]_vars

\* Expressions.  The binary operators, each with its lexeme and the kind of
\* its token, and the chains `a op1 b op2 c` of two of them.
Operators ==
    << [text |-> <<"=">>, type |-> "ASSIGN"],
       [text |-> <<".", ".">>, type |-> "DOTDOT"],
       [text |-> <<"|", "|">>, type |-> "LOGICAL_OR"],
       [text |-> <<"&", "&">>, type |-> "LOGICAL_AND"],
       [text |-> <<"=", "=">>, type |-> "EQL"],
       [text |-> <<"!", "=">>, type |-> "NOT_EQL"],
       [text |-> <<"<">>, type |-> "LT"],
       [text |-> <<"<", "=">>, type |-> "LE"],
       [text |-> <<">">>, type |-> "GT"],
       [text |-> <<">", "=">>, type |-> "GE"],
       [text |-> <<"|">>, type |-> "BITWISE_OR"],
       [text |-> <<"^">>, type |-> "BITWISE_XOR"],
       [text |-> <<"&">>, type |-> "BITWISE_AND"],
       [text |-> <<"<", "<">>, type |-> "LEFT_SHIFT"],
       [text |-> <<">", ">">>, type |-> "RIGHT_SHIFT"],
       [text |-> <<"+">>, type |-> "PLUS"],
       [text |-> <<"-">>, type |-> "MINUS"],
       [text |-> <<"*">>, type |-> "MUL"],
       [text |-> <<"/">>, type |-> "DIV"],
       [text |-> <<"%">>, type |-> "MODULO"] >>

\* `x op1 y op2 z`
Chain(x, op1, y, op2, z) ==
    <<x, " ">> \o op1 \o <<" ", y, " ">> \o op2 \o <<" ", z>>

ChainPrograms ==
    {Chain("a", Operators[i].text, "b", Operators[j].text, "c") :
        i \in DOMAIN Operators, j \in DOMAIN Operators}

Src_1_plus_2_times_3 == Chain("1", <<"+">>, "2", <<"*">>, "3")
Src_1_times_2_plus_3 == Chain("1", <<"*">>, "2", <<"+">>, "3")

\* `a op b op c op d`, one operator three times
LongChainPrograms ==
    {Chain("a", Operators[i].text, "b", Operators[i].text, "c")
         \o <<" ">> \o Operators[i].text \o <<" ", "d">> :
        i \in DOMAIN Operators}

\* Assignments: `<target> = b`, the target at column 1 and the `=` one
\* blank behind it.
Assignment(target, value) == target \o <<" ", "=", " ">> \o value

Src_1_assign_2 == Assignment(<<"1">>, <<"2">>)
Src_a_assign_b_0 == Assignment(<<"a">>, <<"b", "[", "0", "]">>)
Src_a_0_assign_b == Assignment(<<"a", "[", "0", "]">>, <<"b">>)

\* Targets that are no identifier and no subscript.
BadTargets ==
    { <<"1">>, <<"1", ".", "5">>, <<"'", "s", "'">>, Spelling["true"],
      Spelling["nil"], <<"-", "a">>, <<"!", "a">>, <<"(", "1", ")">>,
      <<"[", "a", "]">>, <<"{", "}">>, <<"a", "(", ")">>,
      <<"a", "[", "0", "]", "(", ")">>, <<"a", " ", "+", " ", "b">> }

\* Targets that are an identifier or a subscript.
GoodTargets ==
    { <<"a">>, <<"(", "a", ")">>, <<"a", "[", "0", "]">>,
      <<"a", "[", "0", "]", "[", "1", "]">>, <<"a", "(", ")", "[", "0", "]">> }

AssignPrograms ==
    {Assignment(target, <<"b">>) : target \in BadTargets \cup GoodTargets}
        \cup {Src_1_assign_2, Src_a_assign_b_0, Src_a_0_assign_b}

\* The prefix operators, the node type of each as factor_expr leaves it.
PrefixOperators ==
    { [text |-> <<"-">>, type |-> "NEGATE"],
      [text |-> <<"!">>, type |-> "BANG"],
      [text |-> <<"~">>, type |-> "COMPL"] }

BinaryOperators == {Operators[i] : i \in DOMAIN Operators}

\* `pre1 pre2 a`
PrefixTwice(pre1, pre2) == pre1.text \o <<" ">> \o pre2.text \o <<" ", "a">>
\* `pre a op b`, the prefix operator written against its operand
PrefixLeft(pre, op) == pre.text \o <<"a", " ">> \o op.text \o <<" ", "b">>
\* `a op pre b`
PrefixRight(pre, op) == <<"a", " ">> \o op.text \o <<" ">> \o pre.text \o <<"b">>
\* `pre a[0] * b`
PrefixSubscript(pre) == pre.text \o <<"a", "[", "0", "]", " ", "*", " ", "b">>
\* `pre f(1)`
PrefixCall(pre) == pre.text \o <<"f", "(", "1", ")">>

Src_neg_not_a == <<"-", " ", "!", " ", "a">>
Src_neg_a_0_times_b == <<"-", "a", "[", "0", "]", " ", "*", " ", "b">>
Src_a_minus_neg_b_minus_c ==
    <<"a", " ", "-", " ", "-", "b", " ", "-", " ", "c">>

PrefixPrograms ==
    {PrefixTwice(pre1, pre2) : pre1 \in PrefixOperators, pre2 \in PrefixOperators}
        \cup {PrefixLeft(pre, op) : pre \in PrefixOperators, op \in BinaryOperators}
        \cup {PrefixRight(pre, op) : pre \in PrefixOperators, op \in BinaryOperators}
        \cup {PrefixSubscript(pre) : pre \in PrefixOperators}
        \cup {PrefixCall(pre) : pre \in PrefixOperators}
        \cup {Src_neg_not_a, Src_neg_a_0_times_b, Src_a_minus_neg_b_minus_c}

\* The postfix trailers tried: the text of each, the node it makes and the
\* integers it holds, in source order.
PostfixTrailers ==
    { [text |-> <<"[", "0", "]">>, type |-> "SUBSCRIPT", holds |-> <<"0">>],
      [text |-> <<"(", ")">>, type |-> "CALL", holds |-> <<>>],
      [text |-> <<"(", "1", ")">>, type |-> "CALL", holds |-> <<"1">>],
      [text |-> <<"(", "1", ",", " ", "2", ")">>, type |-> "CALL",
       holds |-> <<"1", "2">>],
      [text |-> <<"(", "1", ",", "2", ",", "3", ")">>, type |-> "CALL",
       holds |-> <<"1", "2", "3">>] }

MaxTrailers == 3

TrailerChoices == UNION {[1..n -> PostfixTrailers] : n \in 1..MaxTrailers}

RECURSIVE TrailerText(_, _)
\* The texts of the trailers `choice` from the i-th on, one behind the other.
TrailerText(choice, i) ==
    IF i > Len(choice) THEN <<>>
    ELSE choice[i].text \o TrailerText(choice, i + 1)

\* `f` followed by the trailers of `choice`
TrailerProgram(choice) == <<"f">> \o TrailerText(choice, 1)

Src_f_1_2 == <<"f", "(", "1", ")", "[", "2", "]">>
Src_f_call == <<"f", "(", ")">>
Src_f_of_sum_at_product ==
    <<"f", "(", "a", " ", "+", " ", "b", ",", " ", "c", ")",
      "[", "d", " ", "*", " ", "e", "]">>

TrailerPrograms ==
    {TrailerProgram(choice) : choice \in TrailerChoices}
        \cup {Src_f_1_2, Src_f_call, Src_f_of_sum_at_product}

\* The compound-assignment tokens of the scanner.
CompoundAssignments ==
    { [text |-> <<"+", "=">>, type |-> "PLUS_ASSIGN"],
      [text |-> <<"-", "=">>, type |-> "MINUS_ASSIGN"],
      [text |-> <<"*", "=">>, type |-> "MUL_ASSIGN"],
      [text |-> <<"/", "=">>, type |-> "DIV_ASSIGN"],
      [text |-> <<"%", "=">>, type |-> "MODULO_ASSIGN"],
      [text |-> <<"|", "=">>, type |-> "BITWISE_OR_ASSIGN"],
      [text |-> <<"^", "=">>, type |-> "BITWISE_XOR_ASSIGN"],
      [text |-> <<"&", "=">>, type |-> "BITWISE_AND_ASSIGN"],
      [text |-> <<"<", "<", "=">>, type |-> "LEFT_SHIFT_ASSIGN"],
      [text |-> <<">", ">", "=">>, type |-> "RIGHT_SHIFT_ASSIGN"] }

\* Where a compound assignment is put: the text before and after it and the
\* line and column it then stands at.
CompoundPlaces ==
    { [before |->
            << "a", " " >>,
       after |->
            << " ", "b" >>,
       line |-> 1, pos |-> 3],
      [before |->
            <<>>,
       after |->
            << " ", "a" >>,
       line |-> 1, pos |-> 1],
      [before |->
            << "a", " ", "=", " ", "b", " " >>,
       after |->
            << " ", "c" >>,
       line |-> 1, pos |-> 7],
      [before |->
            << "a", " ", "=", " " >>,
       after |->
            << " ", "b" >>,
       line |-> 1, pos |-> 5],
      [before |->
            << "(", "a", " " >>,
       after |->
            << " ", "b", ")" >>,
       line |-> 1, pos |-> 4],
      [before |->
            << "f", "(", "a", " " >>,
       after |->
            << " ", "b", ")" >>,
       line |-> 1, pos |-> 5],
      [before |->
            << "a", "[", "b", " " >>,
       after |->
            << " ", "c", "]" >>,
       line |-> 1, pos |-> 5],
      [before |->
            << "i", "f", " ", "a", " ", "{", " ", "b", " " >>,
       after |->
            << " ", "c", ";", " ", "}" >>,
       line |-> 1, pos |-> 10],
      [before |->
            << "i", "f", " ", "a", " " >>,
       after |->
            << " ", "b", " ", "{", " ", "}" >>,
       line |-> 1, pos |-> 6],
      [before |->
            << "d", "e", "f", " " >>,
       after |->
            << " ", "f", "(", ")", " ", "{", " ", "}" >>,
       line |-> 1, pos |-> 5],
      [before |->
            << "a", LF, "b", " " >>,
       after |->
            << " ", "c" >>,
       line |-> 2, pos |-> 3],
      [before |->
            << "y", " ", "=", " ", "{", " ", "a", " " >>,
       after |->
            << " ", "b", " ", "}" >>,
       line |-> 1, pos |-> 9] }

CompoundProgram(place, op) == place.before \o op.text \o place.after

CompoundPrograms ==
    {CompoundProgram(place, op) :
        place \in CompoundPlaces, op \in CompoundAssignments}

Src_a_assign_b_assign_c == Chain("a", <<"=">>, "b", <<"=">>, "c")
Src_a_0_assign_b_assign_c ==
    <<"a", "[", "0", "]", " ", "=", " ", "b", " ", "=", " ", "c">>
Src_a_assign_b_to_c == Chain("a", <<"=">>, "b", <<".", ".">>, "c")

ChainedAssignPrograms ==
    {Src_a_assign_b_assign_c, Src_a_0_assign_b_assign_c, Src_a_assign_b_to_c}

ExprPrograms ==
    ChainPrograms \cup LongChainPrograms \cup AssignPrograms
        \cup PrefixPrograms \cup TrailerPrograms
        \cup CompoundPrograms \cup ChainedAssignPrograms
        \cup {Src_1_plus_2_times_3, Src_1_times_2_plus_3}

InitExpr == InitOn(ExprPrograms)
ExprSpec == InitExpr /\ [][NextParse]_vars

\* Symbols.  Every symbol and operator of next_token's `match`, the line feed
\* aside, with the kind of its token.
Symbols ==
    { [text |-> <<"|", "|">>, type |-> "LOGICAL_OR"],
      [text |-> <<"&", "&">>, type |-> "LOGICAL_AND"],
      [text |-> <<"=", "=">>, type |-> "EQL"],
      [text |-> <<"!", "=">>, type |-> "NOT_EQL"],
      [text |-> <<"<">>, type |-> "LT"],
      [text |-> <<"<", "=">>, type |-> "LE"],
      [text |-> <<">">>, type |-> "GT"],
      [text |-> <<">", "=">>, type |-> "GE"],
      [text |-> <<"|">>, type |-> "BITWISE_OR"],
      [text |-> <<"^">>, type |-> "BITWISE_XOR"],
      [text |-> <<"&">>, type |-> "BITWISE_AND"],
      [text |-> <<"<", "<">>, type |-> "LEFT_SHIFT"],
      [text |-> <<">", ">">>, type |-> "RIGHT_SHIFT"],
      [text |-> <<".">>, type |-> "DOT"],
      [text |-> <<".", ".">>, type |-> "DOTDOT"],
      [text |-> <<"+">>, type |-> "PLUS"],
      [text |-> <<"-">>, type |-> "MINUS"],
      [text |-> <<"*">>, type |-> "MUL"],
      [text |-> <<"/">>, type |-> "DIV"],
      [text |-> <<"%">>, type |-> "MODULO"],
      [text |-> <<"!">>, type |-> "BANG"],
      [text |-> <<"~">>, type |-> "COMPL"],
      [text |-> <<"(">>, type |-> "LPAREN"],
      [text |-> <<")">>, type |-> "RPAREN"],
      [text |-> <<"[">>, type |-> "LBRACK"],
      [text |-> <<"]">>, type |-> "RBRACK"],
      [text |-> <<"{">>, type |-> "LBRACE"],
      [text |-> <<"}">>, type |-> "RBRACE"],
      [text |-> <<",">>, type |-> "COMMA"],
      [text |-> <<";">>, type |-> "SEMICOLON"],
      [text |-> <<"=", ">">>, type |-> "ASSIGN_ARROW"],
      [text |-> <<"=">>, type |-> "ASSIGN"],
      [text |-> <<"|", "=">>, type |-> "BITWISE_OR_ASSIGN"],
      [text |-> <<"^", "=">>, type |-> "BITWISE_XOR_ASSIGN"],
      [text |-> <<"&", "=">>, type |-> "BITWISE_AND_ASSIGN"],
      [text |-> <<"<", "<", "=">>, type |-> "LEFT_SHIFT_ASSIGN"],
      [text |-> <<">", ">", "=">>, type |-> "RIGHT_SHIFT_ASSIGN"],
      [text |-> <<"+", "=">>, type |-> "PLUS_ASSIGN"],
      [text |-> <<"-", "=">>, type |-> "MINUS_ASSIGN"],
      [text |-> <<"*", "=">>, type |-> "MUL_ASSIGN"],
      [text |-> <<"/", "=">>, type |-> "DIV_ASSIGN"],
      [text |-> <<"%", "=">>, type |-> "MODULO_ASSIGN"] }

SymbolPrograms == {symbol.text : symbol \in Symbols}

\* The characters operators are made of, and the texts of up to MaxOps
\* characters that begin with one; a letter, `X` and a digit may follow.
MaxOps == 3

OperatorAlphabet ==
    {"|", "&", "=", "!", "<", ">", "^", ".", "+", "-", "*", "/", "%"}

OperatorPrograms ==
    {text \in Strings(OperatorAlphabet \cup {"a", "X", "1"}, MaxOps) :
        text # <<>> /\ Head(text) \in OperatorAlphabet}

\* Numbers: the texts of up to MaxDigits characters that begin with a digit,
\* and the literals the documentation names.
MaxDigits == 4

NumberAlphabet == {"0", "1", "5", ".", "a", "X"}

Src_200_452 == <<"2", "0", "0", ".", "4", "5", "2">>
Src_1_point == <<"1", ".">>
Src_1_to_5 == <<"1", ".", ".", "5">>

NumberPrograms ==
    {text \in Strings(NumberAlphabet, MaxDigits) :
        text # <<>> /\ Head(text) \in {"0", "1", "5"}}
        \cup {Src_200_452, Src_1_point, Src_1_to_5}

\* Integer literals around the ends of the i64 range: 2^63 - 1, 2^63, 2^64
\* and twenty nines in decimal; 2^63 - 1, 2^63, seventeen F and a literal of
\* twenty digits in hexadecimal.
Src_i64_max == <<"9", "2", "2", "3", "3", "7", "2", "0", "3", "6", "8", "5", "4", "7", "7", "5", "8", "0", "7">>
Src_i64_max_plus_1 == <<"9", "2", "2", "3", "3", "7", "2", "0", "3", "6", "8", "5", "4", "7", "7", "5", "8", "0", "8">>
Src_u64_max_plus_1 == <<"1", "8", "4", "4", "6", "7", "4", "4", "0", "7", "3", "7", "0", "9", "5", "5", "1", "6", "1", "6">>
Src_twenty_nines == <<"9", "9", "9", "9", "9", "9", "9", "9", "9", "9", "9", "9", "9", "9", "9", "9", "9", "9", "9", "9">>
Src_hex_i64_max == <<"0", "x", "7", "F", "F", "F", "F", "F", "F", "F", "F", "F", "F", "F", "F", "F", "F", "F">>
Src_hex_i64_max_plus_1 == <<"0", "x", "8", "0", "0", "0", "0", "0", "0", "0", "0", "0", "0", "0", "0", "0", "0", "0">>
Src_hex_seventeen_F == <<"0", "x", "F", "F", "F", "F", "F", "F", "F", "F", "F", "F", "F", "F", "F", "F", "F", "F", "F">>
Src_hex_twenty == <<"0", "x", "F", "1", "F", "F", "F", "F", "F", "F", "F", "F", "F", "F", "F", "F", "F", "F", "F", "F", "F", "F">>

LargeLiterals ==
    { Src_i64_max, Src_i64_max_plus_1, Src_u64_max_plus_1, Src_twenty_nines,
      <<"0", "0">> \o Src_i64_max_plus_1,
      Src_hex_i64_max, Src_hex_i64_max_plus_1, Src_hex_seventeen_F,
      Src_hex_twenty }

\* A literal alone, behind blanks, on the second line, and followed by `1`,
\* by a blank and by `+`.
LargePrograms ==
    {before \o literal \o behind :
        before \in {<<>>, <<" ", " ">>, <<"a", LF, " ">>},
        literal \in LargeLiterals,
        behind \in {<<>>, <<"1">>, <<" ">>, <<"+", "1">>}}

\* String literals: a quote and up to MaxStr characters behind it, and some
\* longer literals.
MaxStr == 4

StringAlphabet == {"\"", "'", "\\", "n", "x", "4", "1", "a", "X"}

Src_x41 == <<"\"", "\\", "x", "4", "1", "\"">>
Src_x41_single == <<"'", "\\", "x", "4", "1", "'">>
Src_escapes ==
    <<"\"", "\\", "\"", "\\", "\\", "\\", "'", "\\", "n", "\\", "r", "\\", "t", "\"">>
Src_two_strings == <<"\"", "a", "'", "\"", " ", "+", " ", "'", "b", "\"", "'">>
Src_bad_escape == <<"\"", "a", "\\", "q", "\"">>
Src_short_hex == <<"\"", "\\", "x", "4", "\"">>
Src_no_hex == <<"\"", "\\", "x", "q", "4", "\"">>
Src_X_bad_escape == <<"\"", "X", "a", "1", "\\", "q", "\"">>
Src_X_comment_bad_escape == <<"\"", "X", "a", "1", "#", "\\", "q", "\"">>

StringPrograms ==
    {<<quote>> \o tail :
        quote \in {"\"", "'"}, tail \in Strings(StringAlphabet, MaxStr)}
        \cup { Src_x41, Src_x41_single, Src_escapes, Src_two_strings,
               Src_bad_escape, Src_short_hex, Src_no_hex, Src_X_bad_escape,
               Src_X_comment_bad_escape }

\* Block comments: the opener `===` alone, behind a blank and behind a token,
\* with up to MaxComment characters behind it.
MaxComment == 4

CommentAlphabet == {"=", "a", "X", LF, "\""}

CommentPrograms ==
    {before \o <<"=", "=", "=">> \o tail :
        before \in {<<>>, <<" ">>, <<"a", " ">>},
        tail \in Strings(CommentAlphabet, MaxComment)}

\* Words: every reserved word alone, capitalised, with `_` before it, and
\* with a letter, `_`, a digit, `X`, a blank or `(` behind it; and every text
\* of up to MaxWord characters that begins with a letter or `_`.
MaxWord == 4

WordAlphabet == {"i", "f", "n", "_", "I", "X", "1", " "}

Capital ==
    [c \in {"d", "i", "e", "f", "w", "u", "s", "c", "t", "n", "r"} |->
        CASE c = "d" -> "D" [] c = "i" -> "I" [] c = "e" -> "E" [] c = "f" -> "F"
          [] c = "w" -> "W" [] c = "u" -> "U" [] c = "s" -> "S" [] c = "c" -> "C"
          [] c = "t" -> "T" [] c = "n" -> "N" [] c = "r" -> "R"]

Src_iffy == <<"i", "f", "f", "y">>
Src_If == <<"I", "f">>
Src_in_ == <<"i", "n", "_">>

WordPrograms ==
    {Spelling[w] \o behind :
        w \in DOMAIN Spelling,
        behind \in {<<>>, <<"y">>, <<"_">>, <<"1">>, <<"X">>, <<" ", "a">>, <<"(">>}}
        \cup {<<"_">> \o Spelling[w] : w \in DOMAIN Spelling}
        \cup {<<Capital[Head(Spelling[w])]>> \o Tail(Spelling[w]) :
                w \in DOMAIN Spelling}
        \cup {text \in Strings(WordAlphabet, MaxWord) :
                text # <<>> /\ Head(text) \in {"i", "f", "n", "_", "I", "X"}}
        \cup {Src_iffy, Src_If, Src_in_}

\* A character that is not `0`, followed by an identifier that begins with
\* `X`: symbols, digits, a line feed, a quote.
BeforeX ==
    { "(", ")", "[", "]", "{", "}", ",", ";", "~", "+", "=", "1", "5", "9",
      LF, "\"" }

BeforeXPrograms ==
    {before \o <<c, "X">> \o behind :
        before \in {<<>>, <<"f">>},
        c \in BeforeX,
        behind \in {<<>>, <<"s">>, <<"1">>, <<"a", "1", " ", "b">>}}

LexPrograms ==
    SymbolPrograms \cup OperatorPrograms \cup NumberPrograms \cup LargePrograms
        \cup StringPrograms \cup CommentPrograms \cup WordPrograms
        \cup BeforeXPrograms

\* Scanning the symbols, numbers and strings: next_token is called on a
\* fresh scanner over one of the texts until MaxCalls calls were made.
InitLex == InitOn(LexPrograms)
LexSpec == InitLex /\ [][Next]_vars

\* Statements.  The top-level statements the enumerated programs are joined
\* of: `a`, `b = 1`, `if c { d; }`, `def f() { }`.
TopStatements ==
    << <<"a">>,
       <<"b", " ", "=", " ", "1">>,
       Spelling["if"] \o <<" ", "c", " ", "{", " ", "d", ";", " ", "}">>,
       Spelling["def"] \o <<" ", "f", "(", ")", " ", "{", " ", "}">> >>

\* What stands between two statements, before the first and behind the last.
Separators ==
    << <<";">>, <<LF>>, <<";", LF, LF>>, <<" ", ";", " ">>, <<LF, " ", LF>> >>
Leaders == << <<>>, <<" ", LF, LF>> >>
Closers == << <<>>, <<";">>, <<LF>>, <<";", LF, " ", LF>> >>

MaxTop == 3

\* The sequences of 1..MaxTop statements, each named by its index.
TopChoices == UNION {[1..n -> DOMAIN TopStatements] : n \in 1..MaxTop}

RECURSIVE Joined(_, _)
\* The statements of `choice`, the separator `sep` between them.
Joined(choice, sep) ==
    IF Len(choice) = 1 THEN TopStatements[choice[1]]
    ELSE Joined(SubSeq(choice, 1, Len(choice) - 1), sep)
             \o Separators[sep] \o TopStatements[choice[Len(choice)]]

TopProgram(lead, choice, sep, close) ==
    Leaders[lead] \o Joined(choice, sep) \o Closers[close]

\* Every joined program with the statements it was joined of.
TopTable ==
    {[text |-> TopProgram(lead, choice, sep, close), statements |-> choice] :
        lead \in DOMAIN Leaders, choice \in TopChoices,
        sep \in DOMAIN Separators, close \in DOMAIN Closers}

EmptyPrograms == {<<>>, <<LF>>, <<" ">>, <<LF, " ", LF>>}

TopLevelPrograms == {entry.text : entry \in TopTable} \cup EmptyPrograms

\* Blocks.  The statements the enumerated blocks are joined of: `d`,
\* `e = 1`, `if x { y; }`.
BlockStatements ==
    << <<"d">>,
       <<"e", " ", "=", " ", "1">>,
       Spelling["if"] \o <<" ", "x", " ", "{", " ", "y", ";", " ", "}">> >>

\* What opens a block: an `if` and a subroutine declaration.
BlockOpeners ==
    << Spelling["if"] \o <<" ", "c", " ", "{", " ">>,
       Spelling["def"] \o <<" ", "f", "(", ")", " ", "{", LF>> >>

\* What stands behind the last statement of a block: a trailer (with blank
\* lines) and the closing brace, the closing brace alone, or nothing at all.
BlockClosers ==
    << [text |-> <<";", " ", "}">>, ended |-> "trailer"],
       [text |-> <<LF, "}">>, ended |-> "trailer"],
       [text |-> <<";", LF, LF, " ", LF, "}">>, ended |-> "trailer"],
       [text |-> <<LF, LF, "}">>, ended |-> "trailer"],
       [text |-> <<"}">>, ended |-> "brace"],
       [text |-> <<" ", "}">>, ended |-> "brace"],
       [text |-> <<>>, ended |-> "eof"],
       [text |-> <<" ">>, ended |-> "eof"] >>

MaxBlock == 2

BlockChoices == UNION {[1..n -> DOMAIN BlockStatements] : n \in 1..MaxBlock}

RECURSIVE JoinedBlock(_, _)
\* The statements of `choice`, the separator `sep` between them.
JoinedBlock(choice, sep) ==
    IF Len(choice) = 1 THEN BlockStatements[choice[1]]
    ELSE JoinedBlock(SubSeq(choice, 1, Len(choice) - 1), sep)
             \o Separators[sep] \o BlockStatements[choice[Len(choice)]]

\* Every enumerated block with its opener, its statements and its end.
BlockTable ==
    {[text |-> BlockOpeners[open] \o JoinedBlock(choice, sep)
                   \o BlockClosers[close].text,
      open |-> open,
      statements |-> choice,
      ended |-> BlockClosers[close].ended] :
        open \in DOMAIN BlockOpeners, choice \in BlockChoices,
        sep \in DOMAIN Separators, close \in DOMAIN BlockClosers}

\* Blocks without a statement.
EmptyBlocks ==
    {BlockOpeners[open] \o inside \o <<"}">> :
        open \in DOMAIN BlockOpeners, inside \in {<<>>, <<LF, LF>>, <<" ">>}}

BlockPrograms == {entry.text : entry \in BlockTable} \cup EmptyBlocks

\* Programs that fail, the failure followed by more tokens: at a token the
\* parser refuses, and at a character or literal the scanner refuses.
Src_fail_rparen == <<"a", " ", ")", " ", "b", " ", "c", " ", "d">>
Src_fail_second_word == <<"a", " ", "b", " ", "c", " ", "d", " ", "e">>
Src_fail_assign == <<"a", " ", "=", " ", "=", " ", "b", ";", " ", "c", ";", " ", "d">>
Src_fail_if == <<"i", "f", " ", "{", " ", "a", ";", " ", "}", " ", "b", ";", " ", "c", ";", " ", "d">>
Src_fail_operand == <<"x", " ", "=", " ", "(", "1", " ", "+", " ", ")", " ", "y", " ", "z", " ", "w">>
Src_fail_in_block == <<"i", "f", " ", "c", " ", "{", " ", "d", " ", "}", " ", "e", ";", " ", "f", ";", " ", "g">>
Src_fail_char == <<"a", " ", "+", " ", "@", " ", "b", " ", "c", " ", "d">>
Src_fail_char_first == <<"@", " ", "a", " ", "b", " ", "c">>
Src_fail_char_second == <<"a", " ", "@", " ", "b", " ", "c">>
Src_fail_char_late == <<"a", ";", " ", "b", ";", " ", "c", " ", "=", " ", "$", " ", "d", " ", "e">>
Src_fail_string == <<"a", " ", "=", " ", "\"", "b", "c", "\n", "d", " ", "e", " ", "f">>
Src_fail_escape == <<"a", " ", "=", " ", "'", "b", "\\", "q", "c", "'", " ", "+", " ", "d", " ", "+", " ", "e">>
Src_fail_number == <<"a", " ", "=", " ", "9", "2", "2", "3", "3", "7", "2", "0", "3", "6", "8", "5", "4", "7", "7", "5", "8", "0", "8", " ", "+", " ", "b", " ", "+", " ", "c">>

ParserFailPrograms ==
    { Src_fail_rparen, Src_fail_second_word, Src_fail_assign, Src_fail_if,
      Src_fail_operand, Src_fail_in_block }

ScannerFailPrograms ==
    { Src_fail_char, Src_fail_char_first, Src_fail_char_second,
      Src_fail_char_late, Src_fail_string, Src_fail_escape, Src_fail_number }

FailPrograms == ParserFailPrograms \cup ScannerFailPrograms

\* A grammar error followed by a lexical error.  The heads end in a token
\* the grammar refuses, at column `pos` of line 1; the tails are a blank and a
\* token the scanner refuses; between them lie `gap` further tokens.
GrammarErrorHeads ==
    { [text |-> <<"a", " ", "b">>, pos |-> 3],
      [text |-> <<")">>, pos |-> 1],
      [text |-> <<"1", " ", "=">>, pos |-> 3],
      [text |-> Spelling["if"] \o <<" ", ")">>, pos |-> 4],
      [text |-> <<"f", "(", "a", " ", "b">>, pos |-> 5] }

LexicalErrorTails ==
    { <<" ", "$">>,
      <<" ", "\"", "s">>,
      <<" ", "'", "\\", "q", "'">>,
      <<" ", "9", "2", "2", "3", "3", "7", "2", "0", "3", "6", "8", "5",
        "4", "7", "7", "5", "8", "0", "8">> }

MaxGap == 2

RECURSIVE GapTokens(_)
\* n identifiers, a blank before each
GapTokens(n) == IF n = 0 THEN <<>> ELSE <<" ", "c">> \o GapTokens(n - 1)

OrderTable ==
    { [text |-> head.text \o GapTokens(gap) \o tail, pos |-> head.pos,
       gap |-> gap, lexical |-> Len(head.text) + 2 * gap + 2] :
        head \in GrammarErrorHeads, gap \in 0..MaxGap,
        tail \in LexicalErrorTails }

OrderPrograms == {row.text : row \in OrderTable}

Src_a_b_dollar == <<"a", " ", "b", " ", "$">>
Src_a_b_c_dollar == <<"a", " ", "b", " ", "c", " ", "$">>

\* Subroutine declarations at a statement position inside a block: the body
\* of an `if`, of a `while`, of another declaration, and a block in a block.
Decl_g == Spelling["def"] \o <<" ", "g", "(", ")", " ", "{", " ", "}">>

Src_def_in_if ==
    Spelling["if"] \o <<" ", "c", " ", "{", " ">> \o Decl_g \o <<";", " ", "}">>
Src_def_in_while ==
    Spelling["while"] \o <<" ", "c", " ", "{", LF>> \o Decl_g \o <<LF, "}">>
Src_def_in_def ==
    Spelling["def"] \o <<" ", "f", "(", ")", " ", "{", " ">> \o Decl_g
        \o <<";", " ", "}">>
Src_def_second_in_if ==
    Spelling["if"] \o <<" ", "c", " ", "{", " ", "d", ";", " ">> \o Decl_g
        \o <<";", " ", "}">>
Src_def_after_statement == <<"a", ";", " ">> \o Decl_g

NestedDeclPrograms ==
    {Src_def_in_if, Src_def_in_while, Src_def_in_def, Src_def_second_in_if}

DeclPrograms == NestedDeclPrograms \cup {Decl_g, Src_def_after_statement}

\* An `if` statement, what stands between the `}` of its last block and a
\* following `elif` or `else` clause, and that clause; alone and as the one
\* statement of a `while` block.
IfHeads ==
    { [text |->
            << "i", "f", " ", "a", " ", "{", " ", "b", ";", " ", "}" >>,
       elifs |-> 0],
      [text |->
            << "i", "f", " ", "a", " ", "{", " ", "b", ";", " ", "}", " ",
               "e", "l", "i", "f", " ", "c", " ", "{", " ", "d", ";", " ",
               "}" >>,
       elifs |-> 1] }

\* `feeds` line feeds, the last one followed by `indent` blanks.
ClauseGaps ==
    { [text |-> <<>>, feeds |-> 0, indent |-> 0],
      [text |-> <<" ">>, feeds |-> 0, indent |-> 0],
      [text |-> <<" ", TAB>>, feeds |-> 0, indent |-> 0],
      [text |-> <<LF>>, feeds |-> 1, indent |-> 0],
      [text |-> <<" ", LF>>, feeds |-> 1, indent |-> 0],
      [text |-> <<LF, " ", " ">>, feeds |-> 1, indent |-> 2],
      [text |-> <<LF, LF>>, feeds |-> 2, indent |-> 0],
      [text |-> <<" ", "#", "c", LF, " ">>, feeds |-> 1, indent |-> 1] }

Clauses ==
    { [text |->
            << "e", "l", "i", "f", " ", "e", " ", "{", " ", "f", ";", " ",
               "}" >>,
       type |-> "ELIF"],
      [text |->
            << "e", "l", "s", "e", " ", "{", " ", "g", ";", " ", "}" >>,
       type |-> "ELSE"] }

InWhile_open == << "w", "h", "i", "l", "e", " ", "w", " ", "{", " " >>
InWhile_close == <<";", " ", "}">>

ClauseTable ==
    { [head |-> head, gap |-> gap, clause |-> clause, nested |-> nested,
       text |-> (IF nested THEN InWhile_open ELSE <<>>)
                    \o head.text \o gap.text \o clause.text
                    \o (IF nested THEN InWhile_close ELSE <<>>)] :
        head \in IfHeads, gap \in ClauseGaps, clause \in Clauses,
        nested \in BOOLEAN }

ClausePrograms == {row.text : row \in ClauseTable}

StmtPrograms ==
    TopLevelPrograms \cup BlockPrograms \cup FailPrograms \cup DeclPrograms
        \cup OrderPrograms \cup ClausePrograms

\* The lookahead: a parser is built on a fresh scanner over one of the
\* programs and advanced token by token.
InitAdvance == InitOn(StmtPrograms)
NextAdvance == ParserNew \/ Advance
AdvanceSpec == InitAdvance /\ [][NextAdvance]_vars

\* Statements and blocks: a parser is built on a fresh scanner over one of
\* the programs and program() is run.
InitStmt == InitOn(StmtPrograms)
StmtSpec == InitStmt /\ [][NextParse]_vars

(***************************************************************************)
(* The claims.  In the scanner's specification Spec the last direct call   *)
(* went from `prev` to `sc`, returning `tok` (pc = "scan") or panicking    *)
(* (pc = "scan_panic"); every call is the last call of some state.  In     *)
(* ParseSpec a run ends with pc = "parsed" and the tree, or pc = "panic".  *)
(***************************************************************************)
\* A direct next_token call has been made.
Called == out # <<>> \/ pc = "scan_panic"

\* The parse is over.
Done == pc \in {"parsed", "panic"}

RECURSIVE HexRun(_, _)
\* How many hex digits `text` holds in a row from index i on.
HexRun(text, i) ==
    IF i <= Len(text) /\ hexdigit_of(text[i]) >= 0
    THEN 1 + HexRun(text, i + 1) ELSE 0

RECURSIVE HexNumber(_)
\* The base-16 value of a sequence of hex digits.
HexNumber(digits) ==
    IF digits = <<>> THEN 0
    ELSE 16 * HexNumber(SubSeq(digits, 1, Len(digits) - 1))
             + hexdigit_of(digits[Len(digits)])

\* C1: when a call stands at `0x` or `0X` followed by one or more hex digits,
\* it returns one INTEGER token whose text is the whole lexeme (prefix and
\* every digit) and whose value is the base-16 value of all the digits, and
\* the scanner is left just behind the lexeme.
C1_HexLiteralIsOneInteger ==
    Called =>
        LET s == token_start(prev)
            first == s.position + 1
            n == HexRun(s.program, first + 2)
            lexeme == SubSeq(s.program, first, first + 1 + n)
        IN  (s.err = NoErr /\ s.ch = "0" /\ peek_char(s, 1) \in {"x", "X"} /\ n >= 1)
            => /\ pc = "scan"
               /\ tok.token_type = "INTEGER"
               /\ tok.text = lexeme
               /\ tok.value = IntegerValue(I64(HexNumber(SubSeq(lexeme, 3, Len(lexeme)))))
               /\ sc.position = s.position + Len(lexeme)

RECURSIVE Shape(_)
\* A tree as <<type, text, shapes of the children>>.
Shape(node) ==
    <<get_type(node), node.token.text,
      [i \in 1..Len(node.children) |-> Shape(node.children[i])]>>

Kids(type, text, kids) == <<type, text, kids>>

Ident(c) == Kids("IDENT", <<c>>, <<>>)

BlockOf(kids) == Kids("BLOCK", Txt_BLOCK, kids)

\* C2: `if a { b } elif c { d } else { e }` parses, to one `if` node with the
\* children a, BLOCK(b), ELIF(c, BLOCK(d)), BLOCK(e), in that order.
C2_IfElifElse ==
    (Done /\ sc.program = Src_if_elif_else) =>
        /\ pc = "parsed"
        /\ Shape(tree) =
             BlockOf(<< Kids("IF", Spelling["if"],
                             << Ident("a"),
                                BlockOf(<<Ident("b")>>),
                                Kids("ELIF", Txt_ELIF,
                                     <<Ident("c"), BlockOf(<<Ident("d")>>)>>),
                                BlockOf(<<Ident("e")>>) >>) >>)

\* The types of the children of the first statement of the tree.
FirstStatementKinds ==
    [i \in 1..Len(tree.children[1].children) |->
        get_type(tree.children[1].children[i])]

\* C3: at top level `def (` gives a SUB_LITERAL with the children SUB_PARAMS,
\* BLOCK and `def` before an identifier a SUB_DECL with the children IDENT,
\* SUB_PARAMS, BLOCK; `def (x) { return x }` and `def f(x) { return x }` both
\* parse, to these shapes.
C3_DefDisambiguation ==
    Done =>
        /\ sc.program \in {Src_def_literal, Src_def_named} => pc = "parsed"
        /\ (pc = "parsed" /\ sc.program \in LiteralSubPrograms \cup {Src_def_literal})
           => /\ get_type(tree.children[1]) = "SUB_LITERAL"
              /\ FirstStatementKinds = <<"SUB_PARAMS", "BLOCK">>
        /\ (pc = "parsed" /\ sc.program \in NamedSubPrograms \cup {Src_def_named})
           => /\ get_type(tree.children[1]) = "SUB_DECL"
              /\ FirstStatementKinds = <<"IDENT", "SUB_PARAMS", "BLOCK">>

\* Programs whose every `return` stands inside a subroutine body, each
\* statement of the body properly ended.
ReturnInsidePrograms ==
    SubPrograms(Open_def_named, ClosedSubBodies)
        \cup SubPrograms(Open_def_literal, ClosedSubBodies)
        \cup {Src_return_after_literal}

\* Programs with a `return` outside of every subroutine body.
ReturnOutsidePrograms ==
    TopPrograms \ Bodies({Stmt_x, Stmt_def}, MaxStmts)

\* C4: a `return` outside of every subroutine body aborts the parse with
\* `'return' outside subroutine`; a `return` anywhere inside a subroutine
\* body, also after a nested subroutine literal of that body, is accepted,
\* with or without an expression.
C4_ReturnOnlyInSubroutine ==
    Done =>
        /\ sc.program \in ReturnOutsidePrograms
           => pc = "panic" /\ parser.err = "'return' outside subroutine"
        /\ sc.program \in ReturnInsidePrograms => pc = "parsed"

\* The 1-based line of the character at offset `start` of `text`.
LineOf(text, start) == 1 + Cardinality({k \in 1..start : text[k] = LF})

\* The 1-based column of the character at offset `start` of `text`.
ColumnOf(text, start) ==
    LET feeds == {k \in 1..start : text[k] = LF} IN
    start + 1 - (IF feeds = {} THEN 0
                 ELSE CHOOSE k \in feeds : \A j \in feeds : j <= k)

\* C5: every token returned (the end-of-file token, which has no character,
\* aside) carries the line and the column of its first character, also after
\* a string literal or a block comment that spans several lines.
C5_TokenPosition ==
    \A i \in DOMAIN out :
        out[i].token.token_type # "EOF" =>
            /\ out[i].token.line_num = LineOf(sc.program, out[i].start)
            /\ out[i].token.line_pos = ColumnOf(sc.program, out[i].start)

RECURSIVE SkipAll(_)
\* The scanner once all the whitespace and all the comments before the next
\* token are skipped.
SkipAll(s) ==
    LET s1 == token_start(s) IN
    IF s1.err # NoErr \/ s1.position = s.position THEN s1 ELSE SkipAll(s1)

\* C6: a call that meets a terminated block comment skips it together with
\* all the whitespace and comments behind it, and does what a call made at
\* the next real token (or at the end of the input) does.
C6_BlockCommentSkipped ==
    Called =>
        LET w == whitespace(prev)
            s == SkipAll(prev)
            r == Scanner_next_token(s)
        IN  (w.err = NoErr /\ is_long_comment(w) /\ s.err = NoErr)
            => IF r.s.err # NoErr THEN pc = "scan_panic"
               ELSE /\ pc = "scan"
                    /\ tok = r.token
                    /\ sc.position = r.s.position

\* C7: a call standing at a line feed (which is then outside of any string
\* and comment) returns the NEWLINE token of that line feed and consumes
\* nothing else, whatever follows; `a LF b` scans as IDENT, NEWLINE, IDENT.
C7_LineFeedIsNewline ==
    /\ Called =>
          LET s == token_start(prev) IN
          (s.err = NoErr /\ s.ch = LF)
          => /\ pc = "scan"
             /\ tok.token_type = "NEWLINE"
             /\ tok.text = <<LF>>
             /\ sc.position = s.position + 1
    /\ (sc.program = <<"a", LF, "b">> /\ Len(out) >= 3)
       => [i \in 1..3 |-> out[i].token.token_type] = <<"IDENT", "NEWLINE", "IDENT">>

\* The tree of `x = { k1 => v1, ..., kn => vn }`.
HashTree(n) ==
    BlockOf(<< Kids("ASSIGN", <<"=">>,
                    << Ident("x"),
                       Kids("HASH_DECL", Txt_HASH_DECL,
                            [i \in 1..n |->
                                Kids("HASH_ELEM", Txt_HASH_ELEM,
                                     <<Ident(HashKeys[i]), Ident(HashVals[i])>>)])
                    >>) >>)

\* C8: a hash literal parses to a HASH_DECL with one HASH_ELEM(key, value) per
\* pair, the empty one to a childless HASH_DECL, and a comma after the last
\* pair is accepted.
C8_HashLiteral ==
    Done =>
        /\ sc.program = Src_hash_empty
           => pc = "parsed" /\ Shape(tree) = HashTree(0)
        /\ \A n \in 0..MaxPairs, trailing \in BOOLEAN :
               (sc.program = HashProgram(n, trailing) /\ (trailing => n >= 1))
               => pc = "parsed" /\ Shape(tree) = HashTree(n)

\* The prefix of a diagnostic by the kind of the offending token.
ClaimedPrefix(token_type) ==
    CASE token_type = "NEWLINE" -> "unexpected newline, "
      [] token_type = "EOF" -> "unexpected end-of-file, "
      [] token_type \in {"STRING", "INTEGER", "FLOAT", "TRUE", "FALSE", "NIL",
                         "IDENT"} -> "unexpected literal near "
      [] token_type \in {"DEF", "IF", "ELIF", "ELSE", "FOR", "WHILE", "UNTIL",
                         "IN", "IMPORT", "DEBUG", "RETURN"} ->
            "unexpected keyword near "
      [] OTHER -> "unexpected symbol near "

\* C9: a diagnostic of the parser carries the line and column of the current
\* token (in `a <lexeme>` the lexeme, at 1:3) and the prefix of that token's
\* kind, followed by its text unless it is a NEWLINE or the end of file.
C9_DiagnosticPrefix ==
    (pc = "panic" /\ parser.err # NoErr) =>
        /\ parser.err_line = parser.current.line_num
        /\ parser.err_pos = parser.current.line_pos
        /\ parser.err_prefix = ClaimedPrefix(parser.current.token_type)
        /\ parser.err_near = IF parser.current.token_type \in {"NEWLINE", "EOF"}
                             THEN <<>> ELSE parser.current.text
        /\ \A lexeme \in LiteralLexemes \cup KeywordLexemes \cup SymbolLexemes :
               sc.program = <<"a", " ">> \o lexeme
               => parser.err_line = 1 /\ parser.err_pos = 3

\* C10: once a call has returned the EOF token, no later call panics, and
\* every later call returns an EOF token with empty text and leaves the
\* scanner's position, line and column where they were.
C10_EofIsIdempotent ==
    \A i \in DOMAIN out :
        out[i].token.token_type = "EOF" =>
            /\ pc # "scan_panic"
            /\ \A j \in (i + 1)..Len(out) :
                   /\ out[j].token.token_type = "EOF"
                   /\ out[j].token.text = <<>>
                   /\ out[j].position = out[i].position
                   /\ out[j].line_num = out[i].line_num
                   /\ out[j].line_pos = out[i].line_pos

\* Two more calls were made after the one that returned EOF at the end of a
\* text that holds a token.
C10_CalledAgainAfterEof ==
    /\ Len(out) >= 4
    /\ out[1].token.token_type # "EOF"
    /\ out[Len(out) - 2].token.token_type = "EOF"
    /\ out[Len(out)].token.token_type = "EOF"


\* The level of each operator kind, from the loosest to the tightest:
\* assignment, range, logical-or, logical-and, equality, relational,
\* bitwise-or, bitwise-xor, bitwise-and, shift, additive, multiplicative.
PrecedenceOrder ==
    << {"ASSIGN"}, {"DOTDOT"}, {"LOGICAL_OR"}, {"LOGICAL_AND"},
       {"EQL", "NOT_EQL"}, {"LT", "LE", "GT", "GE"}, {"BITWISE_OR"},
       {"BITWISE_XOR"}, {"BITWISE_AND"}, {"LEFT_SHIFT", "RIGHT_SHIFT"},
       {"PLUS", "MINUS"}, {"MUL", "DIV", "MODULO"} >>

Precedence(type) == CHOOSE k \in DOMAIN PrecedenceOrder : type \in PrecedenceOrder[k]

\* The node of operator `op` over the operands (shapes) l and r.
Binary(op, l, r) == Kids(op.type, op.text, <<l, r>>)

\* The tree of `x op1 y op2 z` with op1 over op2: op1(x, op2(y, z)).
RightNested(x, op1, y, op2, z) == BlockOf(<<Binary(op1, x, Binary(op2, y, z))>>)

\* The tree of `x op1 y op2 z` with op2 over op1: op2(op1(x, y), z).
LeftNested(x, op1, y, op2, z) == BlockOf(<<Binary(op2, Binary(op1, x, y), z)>>)

IntegerOf(c) == Kids("INTEGER", <<c>>, <<>>)

\* C11: in the tree of `a op1 b op2 c` with operators of two different
\* levels the operator of the tighter level lies beneath the other one,
\* whichever comes first; the chain parses unless op2 is the assignment
\* (whose target is then no identifier); `1 + 2 * 3` gives (+ 1 (* 2 3)) and
\* `1 * 2 + 3` gives (+ (* 1 2) 3).
C11_Precedence ==
    Done =>
        /\ \A i, j \in DOMAIN Operators :
             LET op1 == Operators[i]
                 op2 == Operators[j]
             IN  (/\ sc.program = Chain("a", op1.text, "b", op2.text, "c")
                  /\ Precedence(op1.type) # Precedence(op2.type))
                 => /\ op2.type # "ASSIGN" => pc = "parsed"
                    /\ pc = "parsed" =>
                         Shape(tree) =
                           IF Precedence(op1.type) < Precedence(op2.type)
                           THEN RightNested(Ident("a"), op1, Ident("b"), op2, Ident("c"))
                           ELSE LeftNested(Ident("a"), op1, Ident("b"), op2, Ident("c"))
        /\ sc.program = Src_1_plus_2_times_3
           => /\ pc = "parsed"
              /\ Shape(tree) = RightNested(IntegerOf("1"), Operators[16], IntegerOf("2"),
                                           Operators[18], IntegerOf("3"))
        /\ sc.program = Src_1_times_2_plus_3
           => /\ pc = "parsed"
              /\ Shape(tree) = LeftNested(IntegerOf("1"), Operators[18], IntegerOf("2"),
                                          Operators[16], IntegerOf("3"))

\* `a * b + c` and `a + b * c` are parsed, and so is `a = b .. c`.
C11_BothOrdersParsed ==
    /\ pc = "parsed"
    /\ sc.program \in {Chain("a", <<"*">>, "b", <<"+">>, "c"),
                       Chain("a", <<"=">>, "b", <<".", ".">>, "c"),
                       Src_1_plus_2_times_3}
    /\ Len(tree.children) = 1
    /\ Len(tree.children[1].children) = 2


BinaryTypes == UNION {PrecedenceOrder[k] : k \in DOMAIN PrecedenceOrder}

RECURSIVE TwoOperands(_)
\* Every node of a binary operator in the tree has exactly two children.
TwoOperands(node) ==
    /\ get_type(node) \in BinaryTypes => Len(node.children) = 2
    /\ \A k \in DOMAIN node.children : TwoOperands(node.children[k])

\* C12: two operators of one level other than the assignment fold to the
\* left, `a op1 b op2 c` is op2(op1(a, b), c) and `a op b op c op d` is
\* op(op(op(a, b), c), d); every node of a binary operator in a returned
\* tree has exactly two children, the left operand first.
C12_LeftAssociative ==
    Done =>
        /\ \A i, j \in DOMAIN Operators :
             LET op1 == Operators[i]
                 op2 == Operators[j]
             IN  (/\ sc.program = Chain("a", op1.text, "b", op2.text, "c")
                  /\ Precedence(op1.type) = Precedence(op2.type)
                  /\ op1.type # "ASSIGN")
                 => /\ pc = "parsed"
                    /\ Shape(tree) = LeftNested(Ident("a"), op1, Ident("b"), op2,
                                                Ident("c"))
        /\ \A i \in DOMAIN Operators :
             LET op == Operators[i] IN
             (/\ sc.program = Chain("a", op.text, "b", op.text, "c")
                                 \o <<" ">> \o op.text \o <<" ", "d">>
              /\ op.type # "ASSIGN")
             => /\ pc = "parsed"
                /\ Shape(tree) =
                     BlockOf(<<Binary(op, Binary(op, Binary(op, Ident("a"), Ident("b")),
                                                 Ident("c")),
                                      Ident("d"))>>)
        /\ pc = "parsed" => TwoOperands(tree)

\* `a - b + c` is parsed, with a node of two children at its root.
C12_SameLevelParsed ==
    /\ pc = "parsed"
    /\ sc.program = Chain("a", <<"-">>, "b", <<"+">>, "c")
    /\ get_type(tree.children[1]) = "PLUS"
    /\ get_type(tree.children[1].children[1]) = "MINUS"


\* The parse stopped with a diagnostic at the `=` in column `column`.
AbortedAtAssign(column) ==
    /\ pc = "panic"
    /\ parser.err # NoErr
    /\ parser.current.token_type = "ASSIGN"
    /\ parser.err_line = 1
    /\ parser.err_pos = column

\* The statement is an `=` node over exactly two children, the first of the
\* kind `target`.
AssignedTo(target) ==
    /\ pc = "parsed"
    /\ Len(tree.children) = 1
    /\ get_type(tree.children[1]) = "ASSIGN"
    /\ Len(tree.children[1].children) = 2
    /\ get_type(tree.children[1].children[1]) = target

SubscriptOf(x, index) ==
    Kids("SUBSCRIPT", Txt_SUBSCRIPT, <<Ident(x), IntegerOf(index)>>)

\* C13: an assignment to anything but an identifier or a SUBSCRIPT node
\* aborts the parse at the `=` (`1 = 2`, `a + b = c`); an identifier or a
\* subscript is accepted, `a = b[0]` and `a[0] = b` give an `=` node of two
\* children, the target first.
C13_AssignmentTarget ==
    Done =>
        /\ \A target \in BadTargets :
             sc.program = Assignment(target, <<"b">>)
             => AbortedAtAssign(Len(target) + 2)
        /\ sc.program = Src_1_assign_2 => AbortedAtAssign(3)
        /\ \A i \in DOMAIN Operators :
             (/\ sc.program = Chain("a", Operators[i].text, "b", <<"=">>, "c")
              /\ Operators[i].type # "ASSIGN")
             => AbortedAtAssign(Len(Operators[i].text) + 6)
        /\ \A target \in GoodTargets :
             sc.program = Assignment(target, <<"b">>)
             => \/ AssignedTo("IDENT") /\ Head(target) \in {"a", "("}
                                       /\ target[Len(target)] # "]"
                \/ AssignedTo("SUBSCRIPT") /\ target[Len(target)] = "]"
        /\ sc.program = Src_a_assign_b_0
           => Shape(tree) =
                BlockOf(<<Kids("ASSIGN", <<"=">>,
                               <<Ident("a"), SubscriptOf("b", "0")>>)>>)
        /\ sc.program = Src_a_0_assign_b
           => Shape(tree) =
                BlockOf(<<Kids("ASSIGN", <<"=">>,
                               <<SubscriptOf("a", "0"), Ident("b")>>)>>)

\* `1 = 2` was refused and `a[0] = b` was parsed.
C13_TargetsTried ==
    \/ sc.program = Src_1_assign_2 /\ pc = "panic"
         /\ parser.current.token_type = "ASSIGN"
    \/ sc.program = Src_a_0_assign_b /\ pc = "parsed"
         /\ get_type(tree.children[1]) = "ASSIGN"


\* C14: scanning the text of a symbol or operator alone gives one token of
\* the symbol's kind whose text is that text, and then EOF; no call panics.
C14_SymbolRoundTrip ==
    \A symbol \in Symbols :
        sc.program = symbol.text =>
            /\ pc # "scan_panic"
            /\ Len(out) >= 1 =>
                 /\ out[1].token.token_type = symbol.type
                 /\ out[1].token.text = symbol.text
                 /\ out[1].start = 0
                 /\ out[1].position = Len(symbol.text)
            /\ \A i \in 2..Len(out) : out[i].token.token_type = "EOF"

\* `<<=` alone was scanned: its token and the EOF behind it were returned.
C14_CompoundThenEof ==
    /\ sc.program = <<"<", "<", "=">>
    /\ Len(out) = 2
    /\ out[1].token.token_type = "LEFT_SHIFT_ASSIGN"
    /\ out[2].token.token_type = "EOF"


\* `text` begins with `prefix`.
BeginsWith(text, prefix) ==
    Len(prefix) <= Len(text) /\ SubSeq(text, 1, Len(prefix)) = prefix

\* The longest symbol `text` begins with.
LongestSymbol(text) ==
    CHOOSE symbol \in Symbols :
        /\ BeginsWith(text, symbol.text)
        /\ \A other \in Symbols :
               BeginsWith(text, other.text) => Len(other.text) <= Len(symbol.text)

\* What is left of the input where the last call's token starts.
Unconsumed(s) == SubSeq(s.program, s.position + 1, Len(s.program))

\* C15: a call that stands at an operator returns the longest operator the
\* unconsumed input begins with (`<<=` is one LEFT_SHIFT_ASSIGN, `&&` one
\* LOGICAL_AND, `..` one DOTDOT), whatever follows, unless the input begins
\* with the block-comment opener `===`.
C15_LongestMatch ==
    Called =>
        LET s == token_start(prev)
            rest == Unconsumed(s)
        IN  (/\ s.err = NoErr
             /\ rest # <<>>
             /\ Head(rest) \in OperatorAlphabet
             /\ ~BeginsWith(rest, <<"=", "=", "=">>))
            => /\ pc = "scan"
               /\ tok.token_type = LongestSymbol(rest).type
               /\ tok.text = LongestSymbol(rest).text
               /\ sc.position = s.position + Len(tok.text)


RECURSIVE DigitRun(_, _)
\* How many decimal digits `text` holds in a row from index i on.
DigitRun(text, i) ==
    IF i <= Len(text) /\ hexdigit_of(text[i]) \in 0..9
    THEN 1 + DigitRun(text, i + 1) ELSE 0

RECURSIVE DecimalNumber(_)
\* The value of a sequence of decimal digits.
DecimalNumber(digits) ==
    IF digits = <<>> THEN 0
    ELSE 10 * DecimalNumber(SubSeq(digits, 1, Len(digits) - 1))
             + hexdigit_of(digits[Len(digits)])

\* The longest run of digits that is read for its value here.
ShortRun == 9

\* C16: a call that stands at a run of decimal digits (no `0x` prefix, and
\* short enough to fit) returns the whole run as one INTEGER; if the run is
\* followed by a `.` that no second `.` follows, the `.` and the digits behind
\* it belong to the token and it is a FLOAT; `1..5` is INTEGER, DOTDOT,
\* INTEGER.
C16_NumberLiteral ==
    /\ Called =>
        LET s == token_start(prev)
            rest == Unconsumed(s)
            n == DigitRun(rest, 1)
            point == /\ n < Len(rest)
                     /\ rest[n + 1] = "."
                     /\ ~(n + 2 <= Len(rest) /\ rest[n + 2] = ".")
            length == IF point THEN n + 1 + DigitRun(rest, n + 2) ELSE n
        IN  (/\ s.err = NoErr
             /\ n \in 1..ShortRun
             /\ ~(Head(rest) = "0" /\ peek_char(s, 1) \in {"x", "X"}))
            => /\ pc = "scan"
               /\ tok.token_type = IF point THEN "FLOAT" ELSE "INTEGER"
               /\ tok.text = SubSeq(rest, 1, length)
               /\ sc.position = s.position + length
               /\ ~point => tok.value =
                              IntegerValue(I64(DecimalNumber(SubSeq(rest, 1, n))))
    /\ (sc.program = Src_1_to_5 /\ Len(out) >= 3)
       => /\ out[1].token.token_type = "INTEGER" /\ out[1].token.text = <<"1">>
          /\ out[2].token.token_type = "DOTDOT"
          /\ out[3].token.token_type = "INTEGER" /\ out[3].token.text = <<"5">>


RECURSIVE StripZeros(_)
\* `digits` without its leading zeros.
StripZeros(digits) ==
    IF digits # <<>> /\ Head(digits) = "0" THEN StripZeros(Tail(digits))
    ELSE digits

RECURSIVE Above(_, _)
\* Of two numerals of the same length and radix, the first is the larger.
Above(digits, limit) ==
    /\ digits # <<>>
    /\ \/ hexdigit_of(Head(digits)) > hexdigit_of(Head(limit))
       \/ /\ Head(digits) = Head(limit)
          /\ Above(Tail(digits), Tail(limit))

\* The numeral is larger than `limit`, the numeral of 2^63 - 1 in its radix.
TooLarge(digits, limit) ==
    LET numeral == StripZeros(digits) IN
    \/ Len(numeral) > Len(limit)
    \/ Len(numeral) = Len(limit) /\ Above(numeral, limit)

\* The call was refused with `message` at the place the scanner `s` stands at.
RefusedAt(s, message) ==
    /\ pc = "scan_panic"
    /\ sc.err = message
    /\ sc.err_line = LineOf(s.program, s.position)
    /\ sc.err_pos = ColumnOf(s.program, s.position)

\* C17: a call that stands at a decimal or hexadecimal integer literal whose
\* value is above 2^63 - 1 fails with "number literal was too large" at the
\* line and column of the literal's first character and returns no token;
\* the literal of 2^63 - 1 itself is returned with that value.
C17_TooLargeLiteral ==
    Called =>
        LET s == token_start(prev)
            rest == Unconsumed(s)
            hex == Len(rest) >= 2 /\ rest[1] = "0" /\ rest[2] \in {"x", "X"}
            n == IF hex THEN HexRun(rest, 3) ELSE DigitRun(rest, 1)
            digits == IF hex THEN SubSeq(rest, 3, 2 + n) ELSE SubSeq(rest, 1, n)
            limit == IF hex THEN SubSeq(Src_hex_i64_max, 3, Len(Src_hex_i64_max))
                     ELSE Src_i64_max
            float == ~hex /\ n < Len(rest) /\ rest[n + 1] = "."
                          /\ ~(n + 2 <= Len(rest) /\ rest[n + 2] = ".")
        IN  (s.err = NoErr /\ n >= 1 /\ ~float)
            => /\ TooLarge(digits, limit)
                  => RefusedAt(s, "number literal was too large")
               /\ StripZeros(digits) = limit
                  => /\ pc = "scan"
                     /\ tok.token_type = "INTEGER"
                     /\ tok.value = IntegerValue(<<1, 32767, LimbBase - 1, LimbBase - 1>>)


\* The character each two-character escape denotes.
Escapes ==
    [c \in {"\"", "\\", "'", "n", "r", "t"} |->
        CASE c = "n" -> LF [] c = "r" -> CR [] c = "t" -> TAB [] OTHER -> c]

RECURSIVE Literal(_, _, _, _)
\* The string literal that `text` opens with the quote text[1], read from
\* index i on with `buf` decoded so far: "closed" with the index of the
\* closing quote, "escape" at a backslash that starts no escape, "open" when
\* the text ends first.
Literal(text, quote, i, buf) ==
    IF i > Len(text) THEN [kind |-> "open", buf |-> buf, end |-> i]
    ELSE IF text[i] = quote THEN [kind |-> "closed", buf |-> buf, end |-> i]
    ELSE IF text[i] # "\\"
    THEN Literal(text, quote, i + 1, Append(buf, text[i]))
    ELSE IF i = Len(text) THEN [kind |-> "open", buf |-> buf, end |-> i]
    ELSE IF text[i + 1] \in DOMAIN Escapes
    THEN Literal(text, quote, i + 2, Append(buf, Escapes[text[i + 1]]))
    ELSE IF /\ text[i + 1] = "x"
            /\ i + 3 <= Len(text)
            /\ hexdigit_of(text[i + 2]) >= 0
            /\ hexdigit_of(text[i + 3]) >= 0
    THEN Literal(text, quote, i + 4,
                 Append(buf, Chr(16 * hexdigit_of(text[i + 2])
                                     + hexdigit_of(text[i + 3]))))
    ELSE [kind |-> "escape", buf |-> buf, end |-> i]

\* The literal the scanner `s` stands at, if it stands at a quote.
AtQuote(s) ==
    s.err = NoErr /\ Unconsumed(s) # <<>> /\ Head(Unconsumed(s)) \in {"\"", "'"}

LiteralAt(s) == Literal(Unconsumed(s), Head(Unconsumed(s)), 2, <<>>)

\* C18: a call that stands at a string literal closed by its own quote
\* returns one STRING token whose value is the text between the quotes with
\* every escape replaced by the character it denotes (`\x41` by `A`), and
\* leaves the scanner at the character behind the closing quote.
C18_StringDecoded ==
    Called =>
        LET s == token_start(prev) IN
        (AtQuote(s) /\ LiteralAt(s).kind = "closed")
        => /\ pc = "scan"
           /\ tok.token_type = "STRING"
           /\ tok.value = StringValue(LiteralAt(s).buf)
           /\ sc.position = s.position + LiteralAt(s).end


\* C19: a call that stands at a string literal in which, before any closing
\* quote, a backslash is followed by a character that starts no escape, or
\* `\x` is not followed by two hex digits, fails and returns no token.
C19_InvalidEscape ==
    Called =>
        LET s == token_start(prev) IN
        (AtQuote(s) /\ LiteralAt(s).kind = "escape") => pc = "scan_panic"

\* The block comment `text` opens with has a closing `===` behind the opener.
CommentClosed(text) ==
    \E k \in 4..(Len(text) - 2) : SubSeq(text, k, k + 2) = <<"=", "=", "=">>

\* C20: a call that enters a string literal or a block comment which the end
\* of the input leaves open fails with "unterminated string literal" or
\* "unterminated long comment" and returns neither EOF nor any other token.
C20_Unterminated ==
    Called =>
        /\ LET s == token_start(prev) IN
           (AtQuote(s) /\ LiteralAt(s).kind = "open")
           => pc = "scan_panic" /\ sc.err = "unterminated string literal"
        /\ LET s == whitespace(prev) IN
           (/\ s.err = NoErr
            /\ BeginsWith(Unconsumed(s), <<"=", "=", "=">>)
            /\ ~CommentClosed(Unconsumed(s)))
           => pc = "scan_panic" /\ sc.err = "unterminated long comment"


\* The letters and the underscore.
Letters ==
    { "a", "b", "c", "d", "e", "f", "g", "h", "i", "j", "k", "l", "m", "n",
      "o", "p", "q", "r", "s", "t", "u", "v", "w", "x", "y", "z",
      "A", "B", "C", "D", "E", "F", "G", "H", "I", "J", "K", "L", "M", "N",
      "O", "P", "Q", "R", "S", "T", "U", "V", "W", "X", "Y", "Z", "_" }

RECURSIVE LetterRun(_, _)
\* How many letters and underscores `text` holds in a row from index i on.
LetterRun(text, i) ==
    IF i <= Len(text) /\ text[i] \in Letters
    THEN 1 + LetterRun(text, i + 1) ELSE 0

\* The kind of each reserved word.
KeywordKind ==
    [w \in DOMAIN Spelling |->
        CASE w = "def" -> "DEF" [] w = "if" -> "IF" [] w = "elif" -> "ELIF"
          [] w = "else" -> "ELSE" [] w = "for" -> "FOR" [] w = "while" -> "WHILE"
          [] w = "until" -> "UNTIL" [] w = "switch" -> "SWITCH"
          [] w = "case" -> "CASE" [] w = "default" -> "DEFAULT"
          [] w = "in" -> "IN" [] w = "import" -> "IMPORT" [] w = "true" -> "TRUE"
          [] w = "false" -> "FALSE" [] w = "nil" -> "NIL"
          [] w = "debug" -> "DEBUG" [] w = "return" -> "RETURN"]

\* The kind of the word `text`: that of the reserved word it spells, or IDENT.
WordKind(text) ==
    IF \E w \in DOMAIN Spelling : Spelling[w] = text
    THEN KeywordKind[CHOOSE w \in DOMAIN Spelling : Spelling[w] = text]
    ELSE "IDENT"

\* C21: a call that stands at a letter or an underscore returns one token
\* whose text is the whole run of letters and underscores from there; its
\* kind is that of the reserved word the text spells exactly, IDENT for any
\* other text (`iffy`, `If`, `in_`); `true` and `false` carry the boolean
\* values, and the scanner is left behind the run.
C21_WordToken ==
    Called =>
        LET s == token_start(prev)
            rest == Unconsumed(s)
            n == LetterRun(rest, 1)
            run == SubSeq(rest, 1, n)
        IN  (s.err = NoErr /\ n >= 1)
            => /\ pc = "scan"
               /\ tok.text = run
               /\ tok.token_type = WordKind(run)
               /\ sc.position = s.position + n
               /\ run = Spelling["true"] => tok.value = BoolValue(TRUE)
               /\ run = Spelling["false"] => tok.value = BoolValue(FALSE)
               /\ run \in {Src_iffy, Src_If, Src_in_} => tok.token_type = "IDENT"

\* The reserved word `true` followed by `_` was scanned as one identifier,
\* and alone as TRUE.
C21_WordsScanned ==
    \/ /\ sc.program = Spelling["true"] \o <<"_">>
       /\ Len(out) = 2
       /\ out[1].token.token_type = "IDENT"
       /\ out[2].token.token_type = "EOF"
    \/ /\ sc.program = Spelling["true"]
       /\ Len(out) = 2
       /\ out[1].token.token_type = "TRUE"


\* The tree of each of the TopStatements.
TopShapes ==
    << Ident("a"),
       Kids("ASSIGN", <<"=">>, <<Ident("b"), IntegerOf("1")>>),
       Kids("IF", Spelling["if"],
            <<Ident("c"), BlockOf(<<Ident("d")>>), Kids("ELIF", Txt_ELIF, <<>>)>>),
       Kids("SUB_DECL", Txt_SUB_DECL,
            <<Ident("f"), Kids("SUB_PARAMS", Txt_SUB_PARAMS, <<>>), BlockOf(<<>>)>>) >>

\* C22: when program() returns, the tree is a BLOCK whose children are the
\* top-level statements of the program, one child each, in source order;
\* the parser's current token is EOF and the scanner has read the whole input.
C22_ProgramIsBlock ==
    pc = "parsed" =>
        /\ get_type(tree) = "BLOCK"
        /\ parser.current.token_type = "EOF"
        /\ sc.ch = EOF_CHAR
        /\ sc.position = Len(sc.program)
        /\ \A entry \in TopTable :
               entry.text = sc.program
               => Shape(tree) =
                    BlockOf([i \in DOMAIN entry.statements |->
                                TopShapes[entry.statements[i]]])
        /\ sc.program \in EmptyPrograms => Shape(tree) = BlockOf(<<>>)

\* Three different statements were parsed into one tree.
C22_ThreeStatementsParsed ==
    /\ pc = "parsed"
    /\ sc.program = TopProgram(2, <<4, 3, 2>>, 3, 1)
    /\ Len(tree.children) = 3
    /\ get_type(tree.children[1]) = "SUB_DECL"
    /\ get_type(tree.children[3]) = "ASSIGN"


\* The tree of each of the BlockStatements.
BlockShapes ==
    << Ident("d"),
       Kids("ASSIGN", <<"=">>, <<Ident("e"), IntegerOf("1")>>),
       Kids("IF", Spelling["if"],
            <<Ident("x"), BlockOf(<<Ident("y")>>), Kids("ELIF", Txt_ELIF, <<>>)>>) >>

\* The BLOCK node of the statement an entry of BlockTable opens: the second
\* child of the `if`, the third of the subroutine declaration.
OpenedBlock(open) == tree.children[1].children[open + 1]

\* The parse stopped at a token of kind `type` with "expected newline".
NewlineExpectedAt(type) ==
    /\ pc = "panic"
    /\ parser.err = "expected newline"
    /\ parser.current.token_type = type

\* C23: in a block every statement, the last one too, must be followed by
\* `;` or a line feed: a statement directly followed by `}` or by the end of
\* the input aborts the parse with "expected newline"; with a trailer behind
\* every statement the block parses to its statements, blank lines behind a
\* trailer being skipped; at top level a statement may be followed directly
\* by the end of the input.
C23_BlockTrailer ==
    Done =>
        /\ \A entry \in BlockTable :
               entry.text = sc.program
               => CASE entry.ended = "brace" -> NewlineExpectedAt("RBRACE")
                    [] entry.ended = "eof" -> NewlineExpectedAt("EOF")
                    [] OTHER ->
                         /\ pc = "parsed"
                         /\ Shape(OpenedBlock(entry.open)) =
                              BlockOf([i \in DOMAIN entry.statements |->
                                          BlockShapes[entry.statements[i]]])
        /\ sc.program \in EmptyBlocks => pc = "parsed"
        /\ (\E i \in DOMAIN TopStatements : sc.program = TopStatements[i])
           => pc = "parsed"

\* A block whose last statement is followed directly by `}` was refused, or
\* a statement at top level followed directly by the end was parsed.
C23_TrailersTried ==
    \/ /\ sc.program = BlockOpeners[1] \o BlockStatements[1] \o <<"}">>
       /\ pc = "panic"
       /\ parser.err = "expected newline"
    \/ /\ sc.program = TopStatements[2]
       /\ pc = "parsed"


RECURSIVE Replay(_, _)
\* What up to n next_token calls in a row return on the scanner `s`, each
\* with the scanner behind it; the last one is the first that fails.
Replay(s, n) ==
    IF n = 0 THEN <<>>
    ELSE LET r == Scanner_next_token(s) IN
         IF r.s.err # NoErr THEN <<r>> ELSE <<r>> \o Replay(r.s, n - 1)

\* The calls made on a fresh scanner over the program of this state, far
\* enough to reach the end of the input and to go on behind it.
Stream == Replay(Scanner_new(sc.program), Len(sc.program) + MaxCalls + 2)

\* The parser holds the tokens k and k + 1 of `stream`, and the scanner
\* stands behind token k + 1.
Holds(stream, k) ==
    /\ k + 1 <= Len(stream)
    /\ parser.current = stream[k].token
    /\ parser.next = stream[k + 1].token
    /\ sc = stream[k + 1].s
    /\ parser.scanner = sc

\* C24: a failed parse returns no tree and carries one diagnostic, the
\* parser's or the scanner's.  At a parser error the parser still holds the
\* refused token and the one behind it, the scanner standing behind that
\* one; at a scanner error the scanner stands where the failing call left
\* it.  A parse that reported an error never ends with a tree.
C24_FailFast ==
    /\ pc = "panic" =>
         LET stream == Stream IN
         /\ tree = NoTree
         /\ parser.panicked
         /\ (parser.err # NoErr) # (sc.err # NoErr)
         /\ parser.err # NoErr =>
              /\ \E k \in 1..Len(stream) : Holds(stream, k)
              /\ parser.err_line = parser.current.line_num
              /\ parser.err_pos = parser.current.line_pos
         /\ sc.err # NoErr =>
              /\ sc = stream[Len(stream)].s
              /\ parser.scanner = sc
    /\ pc = "parsed" =>
         parser.err = NoErr /\ sc.err = NoErr /\ ~parser.panicked
    /\ sc.program \in FailPrograms /\ Done => pc = "panic"
    /\ (Done /\ sc.program \in ParserFailPrograms)
       => parser.err # NoErr /\ sc.position < Len(sc.program)
    /\ (Done /\ sc.program \in ScannerFailPrograms)
       => /\ sc.err # NoErr
          /\ sc.program # Src_fail_string => sc.position < Len(sc.program)

\* The parse of `a ) b c d` failed at `)`, the scanner standing behind `b`.
C24_FailedEarly ==
    /\ sc.program = Src_fail_rparen
    /\ pc = "panic"
    /\ parser.current.token_type = "RPAREN"
    /\ sc.position = 5


\* C25: once the parser is built and after every advance, `current` and
\* `next` are two tokens in a row of what the scanner returns on the text,
\* the scanner has been called just up to `next`, and the tokens pulled by
\* the advances are the tokens of the text behind the first two, one by one
\* in their order.
C25_Lookahead ==
    pc = "parser" =>
        LET stream == Stream IN
        /\ Holds(stream, Len(out) + 1)
        /\ \A i \in DOMAIN out : out[i].token = stream[i + 2].token

\* The parser was advanced three times over `if c { d; }`: it holds `{`, `d`.
C25_AdvancedThrice ==
    /\ pc = "parser"
    /\ sc.program = TopStatements[3]
    /\ Len(out) = 2
    /\ parser.current.token_type = "LBRACE"
    /\ parser.next.text = <<"d">>


\* C26: a call that stands at a character other than the `0` of `0x` or `0X`
\* scans it by its own rule although an `X` follows: a symbol is returned as
\* the symbol it is, a digit as an INTEGER, a line feed as NEWLINE, a quote
\* opens a string literal.
C26_HexPathOnlyAtZero ==
    Called =>
        LET s == token_start(prev)
            rest == Unconsumed(s)
        IN  (/\ s.err = NoErr
             /\ Len(rest) >= 2
             /\ rest[2] = "X"
             /\ rest[1] # "0"
             /\ rest[1] \notin Letters)
            => CASE \E symbol \in Symbols : Head(symbol.text) = rest[1] ->
                      /\ pc = "scan"
                      /\ tok.token_type = LongestSymbol(rest).type
                      /\ tok.text = LongestSymbol(rest).text
                 [] hexdigit_of(rest[1]) \in 1..9 ->
                      /\ pc = "scan"
                      /\ tok.token_type = "INTEGER"
                      /\ tok.text = <<rest[1]>>
                 [] rest[1] = LF ->
                      pc = "scan" /\ tok.token_type = "NEWLINE"
                 [] rest[1] \in {"\"", "'"} ->
                      pc = "scan_panic" \/ tok.token_type = "STRING"
                 [] OTHER -> TRUE


\* The tree of the declaration `def g() { }`.
DeclShape ==
    Kids("SUB_DECL", Txt_SUB_DECL,
         <<Ident("g"), Kids("SUB_PARAMS", Txt_SUB_PARAMS, <<>>), BlockOf(<<>>)>>)

RECURSIVE Declares(_)
\* Some node of the tree is the declaration of g.
Declares(node) ==
    \/ Shape(node) = DeclShape
    \/ \E i \in DOMAIN node.children : Declares(node.children[i])

\* C27: `def g() { }` is parsed as a SUB_DECL with the children IDENT,
\* SUB_PARAMS, BLOCK at every statement position: at top level, first or
\* not, and as a statement of the block of an `if`, of a `while` and of
\* another subroutine.
C27_DefAtStatementPosition ==
    (Done /\ sc.program \in DeclPrograms) =>
        /\ pc = "parsed"
        /\ Declares(tree)


\* The node of the prefix operator `pre` over its one operand.
Prefix(pre, operand) == Kids(pre.type, pre.text, <<operand>>)

Op_MINUS == [text |-> <<"-">>, type |-> "MINUS"]
Op_MUL == [text |-> <<"*">>, type |-> "MUL"]
Pre_NEGATE == [text |-> <<"-">>, type |-> "NEGATE"]
Pre_BANG == [text |-> <<"!">>, type |-> "BANG"]

CallOf(f, argument) == Kids("CALL", Txt_CALL, <<Ident(f), IntegerOf(argument)>>)

\* C28: a prefix `-`, `!` or `~` gives a node of exactly one child, its
\* operand; two prefix operators nest, the first over the second (`- ! a`);
\* beside a binary operator the prefix node is that operator's operand, on
\* either side, and a subscript or call lies beneath the prefix node
\* (`-a[0] * b`); the prefix `-` has type NEGATE, every binary `-` stays
\* MINUS (`a - -b - c`); only as the left side of `=` is a prefix node
\* refused.
C28_PrefixOperators ==
    Done =>
        /\ \A pre1 \in PrefixOperators, pre2 \in PrefixOperators :
             sc.program = PrefixTwice(pre1, pre2)
             => /\ pc = "parsed"
                /\ Shape(tree) = BlockOf(<<Prefix(pre1, Prefix(pre2, Ident("a")))>>)
        /\ \A pre \in PrefixOperators, op \in BinaryOperators :
             /\ sc.program = PrefixLeft(pre, op) /\ op.type # "ASSIGN"
                => /\ pc = "parsed"
                   /\ Shape(tree) =
                        BlockOf(<<Binary(op, Prefix(pre, Ident("a")), Ident("b"))>>)
             /\ sc.program = PrefixLeft(pre, op) /\ op.type = "ASSIGN"
                => AbortedAtAssign(4)
             /\ sc.program = PrefixRight(pre, op)
                => /\ pc = "parsed"
                   /\ Shape(tree) =
                        BlockOf(<<Binary(op, Ident("a"), Prefix(pre, Ident("b")))>>)
        /\ \A pre \in PrefixOperators :
             /\ sc.program = PrefixSubscript(pre)
                => /\ pc = "parsed"
                   /\ Shape(tree) =
                        BlockOf(<<Binary(Op_MUL, Prefix(pre, SubscriptOf("a", "0")),
                                         Ident("b"))>>)
             /\ sc.program = PrefixCall(pre)
                => /\ pc = "parsed"
                   /\ Shape(tree) = BlockOf(<<Prefix(pre, CallOf("f", "1"))>>)
        /\ sc.program = Src_neg_not_a
           => Shape(tree) = BlockOf(<<Prefix(Pre_NEGATE, Prefix(Pre_BANG, Ident("a")))>>)
        /\ sc.program = Src_neg_a_0_times_b
           => Shape(tree) =
                BlockOf(<<Binary(Op_MUL, Prefix(Pre_NEGATE, SubscriptOf("a", "0")),
                                 Ident("b"))>>)
        /\ sc.program = Src_a_minus_neg_b_minus_c
           => Shape(tree) =
                BlockOf(<<Binary(Op_MINUS,
                                 Binary(Op_MINUS, Ident("a"),
                                        Prefix(Pre_NEGATE, Ident("b"))),
                                 Ident("c"))>>)

\* `a - -b - c` is parsed: a NEGATE node beneath a MINUS node beneath a MINUS
\* node.
C28_NegateBesideMinus ==
    /\ pc = "parsed"
    /\ sc.program = Src_a_minus_neg_b_minus_c
    /\ get_type(tree.children[1]) = "MINUS"
    /\ get_type(tree.children[1].children[1]) = "MINUS"
    /\ get_type(tree.children[1].children[1].children[2]) = "NEGATE"
    /\ Len(tree.children[1].children[1].children[2].children) = 1


\* The node a trailer makes over the expression parsed so far.
TrailerOver(trailer, sofar) ==
    Kids(trailer.type,
         IF trailer.type = "CALL" THEN Txt_CALL ELSE Txt_SUBSCRIPT,
         <<sofar>> \o [i \in 1..Len(trailer.holds) |-> IntegerOf(trailer.holds[i])])

RECURSIVE Trailed(_, _, _)
\* The tree of the expression `sofar` followed by the trailers of `choice`
\* from the i-th on.
Trailed(sofar, choice, i) ==
    IF i > Len(choice) THEN sofar
    ELSE Trailed(TrailerOver(choice[i], sofar), choice, i + 1)

Op_PLUS == [text |-> <<"+">>, type |-> "PLUS"]

\* C29: every `[expr]` makes the expression parsed so far the first child of
\* a SUBSCRIPT node, the index its second; every `(args)` makes it the first
\* child of a CALL node, the arguments behind it in source order; trailers
\* apply from left to right, so `f(1)[2]` is SUBSCRIPT over (CALL over
\* (f, 1), 2) and `f()` is a CALL node over f alone.
C29_Trailers ==
    Done =>
        /\ \A choice \in TrailerChoices :
             sc.program = TrailerProgram(choice)
             => /\ pc = "parsed"
                /\ Shape(tree) = BlockOf(<<Trailed(Ident("f"), choice, 1)>>)
        /\ sc.program = Src_f_1_2
           => Shape(tree) =
                BlockOf(<<Kids("SUBSCRIPT", Txt_SUBSCRIPT,
                               <<CallOf("f", "1"), IntegerOf("2")>>)>>)
        /\ sc.program = Src_f_call
           => Shape(tree) = BlockOf(<<Kids("CALL", Txt_CALL, <<Ident("f")>>)>>)
        /\ sc.program = Src_f_of_sum_at_product
           => Shape(tree) =
                BlockOf(<<Kids("SUBSCRIPT", Txt_SUBSCRIPT,
                    << Kids("CALL", Txt_CALL,
                            << Ident("f"),
                               Binary(Op_PLUS, Ident("a"), Ident("b")),
                               Ident("c") >>),
                       Binary(Op_MUL, Ident("d"), Ident("e")) >>)>>)

\* `f(1)[2]` is parsed: a SUBSCRIPT node whose first child is a CALL node.
C29_CallThenSubscript ==
    /\ pc = "parsed"
    /\ sc.program = Src_f_1_2
    /\ get_type(tree.children[1]) = "SUBSCRIPT"
    /\ Len(tree.children[1].children) = 2
    /\ get_type(tree.children[1].children[1]) = "CALL"


\* C30: after any number of next_token calls the position lies between 0
\* and the length of the source, and no character was fetched at an index
\* beyond the last one.
C30_WithinSource ==
    /\ 0 <= sc.position
    /\ sc.position <= Len(sc.program)
    /\ sc.err # "index out of bounds"

\* The last call returned the EOF token.
EofReturned == pc = "scan" /\ out # <<>> /\ tok.token_type = "EOF"

\* The scanner stopped in Scanner::error, with a diagnostic of its own.
ScannerErrorReported == pc = "scan_panic" /\ sc.err # "index out of bounds"

\* C31: a call that returns a token other than EOF leaves the position
\* greater than it found it, and calling next_token again and again ends in
\* an EOF token or a diagnostic of the scanner: a scanner that stopped has
\* reported one, and one more call than the source has characters has
\* returned EOF.
C31_ScanningEnds ==
    /\ pc = "scan" /\ out # <<>> /\ tok.token_type # "EOF"
       => sc.position > prev.position
    /\ pc = "scan_panic" => ScannerErrorReported
    /\ pc = "scan" /\ Len(out) > Len(sc.program) => EofReturned


\* The tokens that separate and bracket, none of which heads a node.
SeparatorTypes ==
    { "NEWLINE", "SEMICOLON", "COMMA", "ASSIGN_ARROW", "EOF", "LPAREN",
      "RPAREN", "LBRACK", "RBRACK", "LBRACE", "RBRACE" }

KindsOf(node) == [i \in 1..Len(node.children) |-> get_type(node.children[i])]

\* The children a node of its kind is to have.
ArityObeyed(node) ==
    LET type == get_type(node)
        n == Len(node.children)
        kinds == KindsOf(node)
    IN  CASE type = "IF" ->
               /\ n \in {3, 4}
               /\ kinds[2] = "BLOCK"
               /\ kinds[3] = "ELIF"
               /\ Len(node.children[3].children) % 2 = 0
               /\ n = 4 => kinds[4] = "BLOCK"
          [] type \in {"WHILE", "UNTIL"} -> n = 2 /\ kinds[2] = "BLOCK"
          [] type = "FOR" -> n = 3 /\ kinds[1] = "IDENT" /\ kinds[3] = "BLOCK"
          [] type \in {"IMPORT", "DEBUG"} -> n = 1
          [] type = "RETURN" -> n \in {0, 1}
          [] type = "SUB_DECL" ->
               n = 3 /\ kinds = <<"IDENT", "SUB_PARAMS", "BLOCK">>
          [] type = "SUB_LITERAL" -> n = 2 /\ kinds = <<"SUB_PARAMS", "BLOCK">>
          [] type \in {"HASH_ELEM", "SUBSCRIPT"} -> n = 2
          [] type = "CALL" -> n >= 1
          [] OTHER -> TRUE

RECURSIVE WellFormed(_)
\* Every node of the tree obeys its arity and is headed by no separator.
WellFormed(node) ==
    /\ get_type(node) \notin SeparatorTypes
    /\ ArityObeyed(node)
    /\ \A i \in 1..Len(node.children) : WellFormed(node.children[i])

RECURSIVE KindsIn(_)
\* The kinds of all nodes of the tree.
KindsIn(node) ==
    {get_type(node)}
        \cup UNION {KindsIn(node.children[i]) : i \in 1..Len(node.children)}

\* C32: in a tree the parser returned, `if` has 3 or 4 children (condition,
\* BLOCK, an ELIF node of an even number of children, and the else BLOCK if
\* there is one), `while` and `until` 2, `for` 3, `import` and `debug` 1,
\* `return` 0 or 1, SUB_DECL 3, SUB_LITERAL 2, HASH_ELEM 2, SUBSCRIPT 2,
\* CALL at least 1, and no node is headed by a separator or bracket token.
C32_Arities == pc = "parsed" => WellFormed(tree)

\* A parsed `if` without elif and else beside a subroutine: three children,
\* the third an ELIF node without children.
C32_IfWithoutElif ==
    /\ pc = "parsed"
    /\ sc.program = Arity_if \o <<LF>> \o Arity_def_return_value
    /\ Len(tree.children[1].children) = 3
    /\ get_type(tree.children[1].children[3]) = "ELIF"
    /\ tree.children[1].children[3].children = <<>>
    /\ KindsIn(tree.children[2]) =
         {"SUB_DECL", "IDENT", "SUB_PARAMS", "BLOCK", "RETURN"}


\* The parse stopped with the parser's diagnostic at column `pos` of line 1,
\* the scanner having reported nothing.
GrammarErrorAt(pos) ==
    /\ pc = "panic"
    /\ parser.err # NoErr
    /\ sc.err = NoErr
    /\ parser.err_line = 1
    /\ parser.err_pos = pos

\* The parse stopped with the scanner's diagnostic at column `pos` of line 1.
LexicalErrorAt(pos) ==
    /\ pc = "panic"
    /\ parser.err = NoErr
    /\ sc.err # NoErr
    /\ sc.err_line = 1
    /\ sc.err_pos = pos

\* C33: a source with a token the grammar refuses and, behind it, a token
\* the scanner refuses is reported with the parser's diagnostic at the
\* earlier token, also when the later token is the very next one.
C33_SourceOrder ==
    Done => \A row \in OrderTable :
                sc.program = row.text => GrammarErrorAt(row.pos)


\* The parse stopped with the parser's diagnostic at a token of kind `type`
\* at `line`:`pos`.
AbortedAtToken(type, line, pos) ==
    /\ pc = "panic"
    /\ parser.err # NoErr
    /\ sc.err = NoErr
    /\ parser.current.token_type = type
    /\ parser.err_line = line
    /\ parser.err_pos = pos

Op_ASSIGN == [text |-> <<"=">>, type |-> "ASSIGN"]
Op_DOTDOT == [text |-> <<".", ".">>, type |-> "DOTDOT"]

\* C34: a second `=` in one expression aborts the parse at that `=`
\* (`a = b = c`), the right operand of `=` being a range expression
\* (`a = b .. c` is `=` over a and the range); and every compound-assignment
\* token aborts the parse at the token, wherever it stands.
C34_PlainAssignmentOnly ==
    Done =>
        /\ sc.program = Src_a_assign_b_assign_c => AbortedAtToken("ASSIGN", 1, 7)
        /\ sc.program = Src_a_0_assign_b_assign_c
           => AbortedAtToken("ASSIGN", 1, 10)
        /\ sc.program = Src_a_assign_b_to_c
           => /\ pc = "parsed"
              /\ Shape(tree) =
                   BlockOf(<<Binary(Op_ASSIGN, Ident("a"),
                                    Binary(Op_DOTDOT, Ident("b"), Ident("c")))>>)
        /\ \A place \in CompoundPlaces, op \in CompoundAssignments :
             sc.program = CompoundProgram(place, op)
             => AbortedAtToken(op.type, place.line, place.pos)

\* `a = b = c` was refused at the second `=`, `a = b` already parsed.
C34_SecondAssignRefused ==
    /\ sc.program = Src_a_assign_b_assign_c
    /\ pc = "panic"
    /\ parser.current.token_type = "ASSIGN"
    /\ parser.current.line_pos = 7
    /\ parser.next.text = <<"c">>


\* Where the keyword of the clause of `row` stands.
ClauseLine(row) == 1 + row.gap.feeds
ClausePos(row) ==
    IF row.gap.feeds > 0 THEN row.gap.indent + 1
    ELSE (IF row.nested THEN Len(InWhile_open) ELSE 0)
             + Len(row.head.text) + Len(row.gap.text) + 1

\* The `if` node of `row` with its clause attached.
IfWithClause(row) ==
    LET first == <<Ident("c"), BlockOf(<<Ident("d")>>)>>
        elifs == IF row.head.elifs = 1 THEN first ELSE <<>>
        more == IF row.clause.type = "ELIF"
                THEN <<Ident("e"), BlockOf(<<Ident("f")>>)>> ELSE <<>>
        else == IF row.clause.type = "ELSE"
                THEN <<BlockOf(<<Ident("g")>>)>> ELSE <<>>
    IN  Kids("IF", Spelling["if"],
             <<Ident("a"), BlockOf(<<Ident("b")>>),
               Kids("ELIF", Txt_ELIF, elifs \o more)>> \o else)

\* The tree of the program of `row` with the clause attached to its `if`.
ClauseAttached(row) ==
    IF row.nested
    THEN BlockOf(<<Kids("WHILE", Spelling["while"],
                        <<Ident("w"), BlockOf(<<IfWithClause(row)>>)>>)>>)
    ELSE BlockOf(<<IfWithClause(row)>>)

\* C35: an `elif` or `else` directly behind the `}` of the preceding block
\* (blanks apart) is attached to the `if`; with a line feed between them the
\* parse aborts at the keyword with "expected expression".
C35_ClauseBehindBrace ==
    Done => \A row \in ClauseTable :
                sc.program = row.text =>
                    IF row.gap.feeds = 0
                    THEN pc = "parsed" /\ Shape(tree) = ClauseAttached(row)
                    ELSE /\ AbortedAtToken(row.clause.type, ClauseLine(row),
                                           ClausePos(row))
                         /\ parser.err = "expected expression"

\* An `else` on the line behind the `}` of an elif block inside a `while`
\* block was refused.
C35_ElseOnNextLine ==
    /\ pc = "panic"
    /\ \E row \in ClauseTable :
         /\ sc.program = row.text
         /\ row.nested /\ row.head.elifs = 1 /\ row.gap.feeds = 1
         /\ row.clause.type = "ELSE"
    /\ parser.current.token_type = "ELSE"
    /\ parser.err = "expected expression"
    /\ parser.current.line_num = 2

====
